---- MODULE Spec2Model ----
(***************************************************************************)
(* A model of the mini-bmc firmware daemon: the System Event Log ring, the *)
(* secure-boot verifier, the PID fan controller, the state snapshot file   *)
(* and the supervisor / IPMI listener threads sharing bmc_state_t.         *)
(*                                                                         *)
(* One set of variables holds bmc_state_t and the files and threads around *)
(* it.  Each subsystem has its own specification (SpecSel, SpecBoot, ...)  *)
(* that starts from the state its initialisers leave and drives only the   *)
(* operations of that subsystem.                                           *)
(***************************************************************************)
EXTENDS Integers, Sequences, FiniteSets, TLC

VARIABLES
    sel,            \* bmc_state_t.sel[MAX_SEL_ENTRIES]: the entries up to the
                    \* last one ever written; the rest are still all-zero
    sel_count,      \* bmc_state_t.sel_count
    sel_next_id,    \* bmc_state_t.sel_next_id
    sel_file,       \* content of SEL_FILE_PATH as last written by sel_save
    appended,       \* ghost: the ids returned by sel_add_entry, in call order
    fw_images,      \* bmc_state_t.fw_images[MAX_FW_IMAGES]
    fw_image_count, \* bmc_state_t.fw_image_count
    secure_boot_passed, \* bmc_state_t.secure_boot_passed
    fw_dir,         \* whether FW_IMAGE_DIR exists
    blob,           \* content of FW_IMAGE_DIR/<name>.bin per image index
    boot_hist,      \* ghost: secure-boot calls made since secure_boot_init
    verify_ret,     \* ghost: value returned by the last secure_boot_verify
    pid,            \* bmc_state_t.pid (pid_state_t), doubles in units of 1/FP
    pid_ghost,      \* ghost: the last PID call, its return value, its
                    \*        unclamped integral and output, calls made
    sensors,        \* bmc_state_t.sensors[MAX_SENSORS]
    sensor_count,   \* bmc_state_t.sensor_count
    fan_duty_percent, \* bmc_state_t.fan_duty_percent
    running,        \* bmc_state_t.running
    lock,           \* bmc_state_t.lock: the thread holding it, or "free"
    state_file,     \* content of STATE_FILE_PATH
    tmp_file,       \* content of STATE_FILE_PATH ".tmp"
    save,           \* bmc_state_save in progress: its position, the
                    \* serialised document, its last return value
    observed,       \* what the reader of STATE_FILE_PATH last read
    sup,            \* the supervisor thread (main): its position, loop
                    \* iterations made, locals of a call in progress
    lis             \* the IPMI listener thread: its position, the request
                    \* being handled, locals, the last response written

selVars == <<sel, sel_count, sel_next_id, sel_file, appended>>

bootVars == <<fw_images, fw_image_count, secure_boot_passed, fw_dir, blob,
              boot_hist, verify_ret>>

pidVars == <<pid, pid_ghost>>

sensorVars == <<sensors, sensor_count, fan_duty_percent>>

saveVars == <<state_file, tmp_file, save, observed>>

threadVars == <<sup, lis>>

restVars == <<sensorVars, running, lock, saveVars, threadVars>>

vars == <<selVars, bootVars, pidVars, restVars>>

(***************************************************************************)
(* Program constants                                                       *)
(***************************************************************************)
MAX_SEL_ENTRIES == 256

MAX_FW_IMAGES == 4

MAX_SENSORS == 8

SENSOR_TYPE_TEMPERATURE == 0
SENSOR_TYPE_VOLTAGE == 1
SENSOR_TYPE_FAN_RPM == 2
SENSOR_TYPE_POWER == 3

SENSOR_STATUS_OK == 0
SENSOR_STATUS_WARNING == 1
SENSOR_STATUS_CRITICAL == 2
SENSOR_STATUS_ABSENT == 3

SEL_SEVERITY_INFO == 0
SEL_SEVERITY_WARNING == 1
SEL_SEVERITY_CRITICAL == 2

Severities == {SEL_SEVERITY_INFO, SEL_SEVERITY_WARNING, SEL_SEVERITY_CRITICAL}

(***************************************************************************)
(* Bounds of the model                                                     *)
(***************************************************************************)
\* sel_add_entry calls in one run of SpecSel (300 fill and overflow the ring)
MaxAppends == 302
\* the first FreeSevIds appends of SpecSel draw any severity, the rest Info
FreeSevIds == 2
\* secure-boot calls in one run of SpecBoot
MaxBootOps == 3
\* leading bytes of a firmware blob that the model keeps (of FW_IMAGE_SIZE)
BlobLen == 4
\* pid_compute calls in one run of SpecPid
MaxComputes == 2
\* bmc_state_save calls in one run of SpecSave
MaxSaves == 2
\* loop iterations of main in one run of SpecConc
MaxTicks == 1
\* requests the listener accepts in one run of SpecConc
MaxRequests == 1

(***************************************************************************)
(* Event log (event_log.c)                                                 *)
(***************************************************************************)
\* A sel_entry_t after memset(state, 0, ...): id 0, severity 0, empty strings.
\* The timestamp (time(NULL)) is not modelled: nothing reads it back.
ZeroEntry == [id |-> 0, severity |-> 0, source |-> "", message |-> <<>>]

SelIndex == 0..(MAX_SEL_ENTRIES - 1)

\* sel[k] of the C array: s holds the entries written so far (s[k + 1] is
\* the C sel[k]); an entry beyond them is as memset left it.
SelAt(s, k) == IF k < Len(s) THEN s[k + 1] ELSE ZeroEntry

\* The array after sel[k] = e.  A write past the array (k = MAX_SEL_ENTRIES)
\* lands outside the modelled memory and leaves sel as it was.
SelPut(s, k, e) ==
    IF k >= MAX_SEL_ENTRIES THEN s
    ELSE [j \in 1..(IF Len(s) > k + 1 THEN Len(s) ELSE k + 1) |->
            IF j = k + 1 THEN e ELSE SelAt(s, j - 1)]

\* The event-log fields of bmc_state_t, with the SEL file, as one value.
Log == [sel |-> sel, sel_count |-> sel_count, sel_next_id |-> sel_next_id,
        sel_file |-> sel_file, appended |-> appended]

SetLog(L) ==
    /\ sel' = L.sel
    /\ sel_count' = L.sel_count
    /\ sel_next_id' = L.sel_next_id
    /\ sel_file' = L.sel_file
    /\ appended' = L.appended

\* The live entries sel[0..sel_count-1] as a sequence, oldest first.
LiveEntries(L) == [k \in 1..L.sel_count |-> SelAt(L.sel, k - 1)]

\* sel_save: serialises entries 0..sel_count-1 and the count, then rewrites
\* the SEL file with them.
sel_save(L) ==
    [L EXCEPT !.sel_file = [entries |-> LiveEntries(L), count |-> L.sel_count]]

\* sel_save, lines 90-105: the loop that serialises entries 0..sel_count-1.
sel_save_entries(L) == LiveEntries(L)

\* sel_save, lines 107-120: sel_count is read again for "count", and the
\* document replaces the SEL file.
sel_save_write(L, entries) ==
    [L EXCEPT !.sel_file = [entries |-> entries, count |-> L.sel_count]]

\* memmove(&sel[0], &sel[1], (MAX_SEL_ENTRIES - 1) * sizeof(sel_entry_t))
ShiftLeft(s) ==
    [j \in 1..MAX_SEL_ENTRIES |->
        IF j - 1 < MAX_SEL_ENTRIES - 1 THEN SelAt(s, j) ELSE SelAt(s, j - 1)]

\* Mutant: the capacity test is off by one (> for >=), so a full ring is
\* not shifted before the write.
sel_evict_OffByOne(L) ==
    IF L.sel_count > MAX_SEL_ENTRIES
        THEN [L EXCEPT !.sel = ShiftLeft(L.sel),
                       !.sel_count = MAX_SEL_ENTRIES - 1]
        ELSE L

\* sel_add_entry, lines 42-47: at capacity, drop the oldest entry.
sel_evict(L) ==
    IF L.sel_count >= MAX_SEL_ENTRIES
        THEN [L EXCEPT !.sel = ShiftLeft(L.sel),
                       !.sel_count = MAX_SEL_ENTRIES - 1]
        ELSE L

\* Mutant: the id counter restarts at 1 when the ring wraps.
sel_write_ResetId(L, severity, source, message) ==
    LET id == IF L.sel_count = MAX_SEL_ENTRIES - 1 /\ L.sel_next_id > MAX_SEL_ENTRIES
                 THEN 1 ELSE L.sel_next_id
    IN  [L EXCEPT !.sel = SelPut(L.sel, L.sel_count,
                                 [id |-> id, severity |-> severity,
                                  source |-> source, message |-> message]),
                  !.sel_next_id = id + 1,
                  !.sel_count = L.sel_count + 1,
                  !.appended = Append(L.appended, id)]

\* sel_add_entry, lines 49-50: the slot index and the id that the call
\* reads from sel_count and sel_next_id.
sel_slot(L) == [idx |-> L.sel_count, id |-> L.sel_next_id]

\* sel_add_entry, lines 50-60: store the incremented sel_next_id and fill
\* the entry at the slot read before.
sel_fill(L, slot, severity, source, message) ==
    [L EXCEPT !.sel = SelPut(L.sel, slot.idx,
                             [id |-> slot.id, severity |-> severity,
                              source |-> source, message |-> message]),
              !.sel_next_id = slot.id + 1,
              !.appended = Append(L.appended, slot.id)]

\* sel_add_entry, lines 62-71: sel_count++, and sel_save after a Critical
\* entry.
sel_bump(L, severity) ==
    LET W == [L EXCEPT !.sel_count = L.sel_count + 1]
    IN  IF severity = SEL_SEVERITY_CRITICAL THEN sel_save(W) ELSE W

\* sel_add_entry, lines 49-62: fill sel[sel_count] with id = sel_next_id++,
\* then sel_count++.
sel_write(L, severity, source, message) ==
    [sel_fill(L, sel_slot(L), severity, source, message)
        EXCEPT !.sel_count = L.sel_count + 1]

\* Mutant: a Critical entry is persisted before it is written to the log.
sel_add_entry_SaveFirst(L, severity, source, message) ==
    LET E == sel_evict(L)
    IN  IF severity = SEL_SEVERITY_CRITICAL
        THEN sel_write(sel_save(E), severity, source, message)
        ELSE sel_write(E, severity, source, message)

\* sel_add_entry as one uninterrupted call: evict, write, and sel_save when
\* the severity is Critical.
sel_add_entry(L, severity, source, message) ==
    LET W == sel_write(sel_evict(L), severity, source, message)
    IN  IF severity = SEL_SEVERITY_CRITICAL THEN sel_save(W) ELSE W

\* sel_get_entry: linear scan of the live entries; <<>> stands for NULL.
sel_get_entry(L, id) ==
    LET hits == {k \in 0..(L.sel_count - 1) : SelAt(L.sel, k).id = id}
    IN  IF hits = {} THEN <<>>
        ELSE <<SelAt(L.sel, CHOOSE k \in hits : \A j \in hits : k <= j)>>

\* No SEL file before the first sel_save.
NoFile == [entries |-> <<>>, count |-> -1]

\* The log after bmc_state_init (memset, sel_next_id = 1) and sel_init.
ZeroLog ==
    [sel |-> <<>>, sel_count |-> 0, sel_next_id |-> 1,
     sel_file |-> NoFile, appended |-> <<>>]

SetLogInit(L) ==
    /\ sel = L.sel
    /\ sel_count = L.sel_count
    /\ sel_next_id = L.sel_next_id
    /\ sel_file = L.sel_file
    /\ appended = L.appended

SelInit == SetLogInit(ZeroLog)

(***************************************************************************)
(* Secure boot (secure_boot.c)                                             *)
(***************************************************************************)
\* fw_configs[i].name, i = 0..NUM_FW_IMAGES-1
fw_configs == <<"bootloader", "bmc_firmware", "application", "config_data">>

NUM_FW_IMAGES == Len(fw_configs)

FwIndex == 0..(MAX_FW_IMAGES - 1)

\* A missing file; a present file is the sequence of its first BlobLen bytes.
Absent == <<>>

\* rand() % 256 after srand(seed), seed = 42 + image index: the leading
\* bytes glibc's rand() gives for the seeds 42..45.
RandBytes ==
    <<  <<70, 100, 49, 41, 100, 134>>,
        <<68, 95, 201, 218, 88, 181>>,
        <<249, 220, 57, 84, 149, 71>>,
        <<146, 11, 59, 123, 255, 107>>  >>

\* Mutant: the file is opened for appending, so an existing file keeps its
\* leading bytes.
generate_fw_image_Append(dir, old, seed) ==
    IF ~dir \/ old # Absent THEN old
    ELSE [n \in 1..BlobLen |-> RandBytes[seed - 42 + 1][n]]

\* generate_fw_image(path, seed): fopen "wb" fails when the directory is
\* gone (the file stays as it was), else the file holds the seeded bytes.
generate_fw_image(dir, old, seed) ==
    IF ~dir THEN old
    ELSE [n \in 1..BlobLen |-> RandBytes[seed - 42 + 1][n]]

RECURSIVE Digest(_, _)
\* The digest of a byte sequence: a rolling hash standing for SHA-256 (every
\* byte and its position change the result).
Digest(h, bytes) ==
    IF bytes = <<>> THEN h
    ELSE Digest((h * 33 + Head(bytes)) % 65521, Tail(bytes))

\* compute_file_hash: [ok |-> FALSE] when the file cannot be opened (hash_out
\* is then left untouched), else the hex digest of the content.
compute_file_hash(content) ==
    IF content = Absent THEN [ok |-> FALSE, hash |-> <<>>]
    ELSE [ok |-> TRUE, hash |-> <<Digest(5381, content)>>]

\* An fw_image_t after memset(state, 0, ...).
ZeroImage ==
    [name |-> "", expected_hash |-> <<>>, actual_hash |-> <<>>,
     verified |-> FALSE, passed |-> FALSE]

ZeroImages == [i \in FwIndex |-> ZeroImage]

NoBlobs == [i \in FwIndex |-> Absent]

\* The secure-boot part of the state after bmc_state_init.
BootZero ==
    /\ fw_images = ZeroImages
    /\ fw_image_count = 0
    /\ secure_boot_passed = FALSE
    /\ fw_dir = FALSE
    /\ blob = NoBlobs
    /\ boot_hist = <<>>
    /\ verify_ret = FALSE

\* secure_boot_init, lines 109-136: mkdir -p, then per image: set the name,
\* clear verified and passed, regenerate the blob and record its hash as
\* expected_hash (actual_hash is not touched).
InitImages(images, blobs) ==
    LET count == IF NUM_FW_IMAGES > MAX_FW_IMAGES THEN MAX_FW_IMAGES ELSE NUM_FW_IMAGES
        gen(i) == generate_fw_image(TRUE, blobs[i], 42 + i)
        h(i) == compute_file_hash(gen(i))
    IN  [count |-> count,
         blob |-> [i \in FwIndex |-> IF i < count THEN gen(i) ELSE blobs[i]],
         images |-> [i \in FwIndex |->
            IF i < count
            THEN [images[i] EXCEPT
                    !.name = fw_configs[i + 1],
                    !.verified = FALSE,
                    !.passed = FALSE,
                    !.expected_hash = IF h(i).ok THEN h(i).hash ELSE @]
            ELSE images[i]]]

\* The SEL entry secure_boot_init appends, lines 138-140.
init_log(L, count) ==
    sel_add_entry(L, SEL_SEVERITY_INFO, "SecureBoot",
                  <<"Secure boot chain initialized with images", count>>)

\* One pass of the verify loop body over image fw whose file holds content:
\* the image record after it.  An unreadable file marks the image verified
\* and failed and keeps the old actual_hash.
\* Mutant: the hashes are stored the wrong way round, so a mismatch
\* overwrites expected_hash with the hash just computed.
verify_image_StoreSwapped(fw, content) ==
    LET h == compute_file_hash(content)
    IN  IF ~h.ok
        THEN [fw EXCEPT !.verified = TRUE, !.passed = FALSE]
        ELSE [fw EXCEPT !.actual_hash = h.hash,
                        !.expected_hash = h.hash,
                        !.verified = TRUE,
                        !.passed = (fw.expected_hash = h.hash)]

verify_image(fw, content) ==
    LET h == compute_file_hash(content)
    IN  IF ~h.ok
        THEN [fw EXCEPT !.verified = TRUE, !.passed = FALSE]
        ELSE [fw EXCEPT !.actual_hash = h.hash,
                        !.verified = TRUE,
                        !.passed = (fw.expected_hash = h.hash)]

\* The SEL entry the loop body appends for image fw after verify_image.
verify_log(L, fw, content) ==
    IF ~compute_file_hash(content).ok
    THEN sel_add_entry(L, SEL_SEVERITY_CRITICAL, "SecureBoot",
                       <<"FAIL: Cannot read image", fw.name>>)
    ELSE IF fw.passed
    THEN sel_add_entry(L, SEL_SEVERITY_INFO, "SecureBoot",
                       <<"PASS: Image integrity verified", fw.name>>)
    ELSE sel_add_entry(L, SEL_SEVERITY_CRITICAL, "SecureBoot",
                       <<"FAIL: Image hash mismatch - possible tampering!", fw.name>>)

RECURSIVE verify_loop(_, _)
\* secure_boot_verify, lines 153-195, from loop index i on.  V carries the
\* image records, the log and all_passed.  An unreadable image ends its
\* iteration with continue; a hash mismatch ends the loop with break.
verify_loop(V, i) ==
    IF i >= fw_image_count THEN V
    ELSE LET fw == verify_image(V.images[i], blob[i])
             readable == compute_file_hash(blob[i]).ok
             W == [images |-> [V.images EXCEPT ![i] = fw],
                   log |-> verify_log(V.log, fw, blob[i]),
                   all_passed |-> V.all_passed /\ fw.passed]
         IN  IF ~readable THEN verify_loop(W, i + 1)
             ELSE IF ~fw.passed THEN W
             ELSE verify_loop(W, i + 1)

\* secure_boot_verify as called on the current state: the loop from image 0
\* with all_passed = true.
verify_run ==
    verify_loop([images |-> fw_images, log |-> Log, all_passed |-> TRUE], 0)

\* Mutant: the tamper write changes nothing (the byte written is the one
\* already there).
TamperBlob_NoChange(content) == content

\* secure_boot_inject_tamper, lines 215-220: fopen "r+b" and overwrite the
\* first byte with 0xFF.
TamperBlob(content) == [content EXCEPT ![1] = 255]

\* Image indexes passed to tamper and restore: valid ones and both edges.
BootIndexInputs == (0 - 1)..MAX_FW_IMAGES

secure_boot_init ==
    /\ Len(boot_hist) < MaxBootOps
    /\ UNCHANGED <<pidVars, restVars>>
    /\ fw_dir' = TRUE
    /\ fw_image_count' = InitImages(fw_images, blob).count
    /\ blob' = InitImages(fw_images, blob).blob
    /\ fw_images' = InitImages(fw_images, blob).images
    /\ SetLog(init_log(Log, InitImages(fw_images, blob).count))
    /\ boot_hist' = Append(boot_hist, <<"init">>)
    /\ UNCHANGED <<secure_boot_passed, verify_ret>>

secure_boot_verify ==
    /\ Len(boot_hist) < MaxBootOps
    /\ UNCHANGED <<pidVars, restVars>>
    /\ fw_images' = verify_run.images
    /\ SetLog(verify_run.log)
    /\ secure_boot_passed' = verify_run.all_passed
    /\ verify_ret' = verify_run.all_passed
    /\ boot_hist' = Append(boot_hist, <<"verify">>)
    /\ UNCHANGED <<fw_image_count, fw_dir, blob>>

\* The value secure_boot_inject_tamper(state, i) returns, lines 207-208,
\* 216 and 228: -1 for an index out of range or a file that cannot be
\* opened.
inject_tamper_ret(i) ==
    IF i < 0 \/ i >= fw_image_count THEN 0 - 1
    ELSE IF blob[i] = Absent THEN 0 - 1
    ELSE 0

\* The value secure_boot_restore(state, i) returns, lines 233-234 and 249:
\* -1 for an index out of range.
restore_ret(i) == IF i < 0 \/ i >= fw_image_count THEN 0 - 1 ELSE 0

\* secure_boot_inject_tamper(state, i): no effect when it returns -1.
secure_boot_inject_tamper(i) ==
    /\ Len(boot_hist) < MaxBootOps
    /\ UNCHANGED <<pidVars, restVars>>
    /\ boot_hist' = Append(boot_hist, <<"tamper", i>>)
    /\ IF inject_tamper_ret(i) # 0
       THEN UNCHANGED <<selVars, blob>>
       ELSE /\ blob' = [blob EXCEPT ![i] = TamperBlob(blob[i])]
            /\ SetLog(sel_add_entry(Log, SEL_SEVERITY_WARNING, "SecureBoot",
                        <<"[DEMO] Injected tamper into", fw_images[i].name>>))
    /\ UNCHANGED <<fw_images, fw_image_count, secure_boot_passed, fw_dir, verify_ret>>

\* secure_boot_restore(state, i): no effect when it returns -1; otherwise
\* it regenerates the blob and logs, whether or not the file could be
\* written.
secure_boot_restore(i) ==
    /\ Len(boot_hist) < MaxBootOps
    /\ UNCHANGED <<pidVars, restVars>>
    /\ boot_hist' = Append(boot_hist, <<"restore", i>>)
    /\ IF restore_ret(i) # 0
       THEN UNCHANGED <<selVars, blob>>
       ELSE /\ blob' = [blob EXCEPT ![i] = generate_fw_image(fw_dir, blob[i], 42 + i)]
            /\ SetLog(sel_add_entry(Log, SEL_SEVERITY_INFO, "SecureBoot",
                        <<"[DEMO] Restored image", fw_images[i].name>>))
    /\ UNCHANGED <<fw_images, fw_image_count, secure_boot_passed, fw_dir, verify_ret>>

\* secure_boot_cleanup(state), lines 252-259: rm -rf FW_IMAGE_DIR; the
\* state is not touched.
secure_boot_cleanup ==
    /\ Len(boot_hist) < MaxBootOps
    /\ UNCHANGED <<pidVars, restVars>>
    /\ boot_hist' = Append(boot_hist, <<"cleanup">>)
    /\ blob' = NoBlobs
    /\ fw_dir' = FALSE
    /\ UNCHANGED <<selVars, fw_images, fw_image_count, secure_boot_passed, verify_ret>>

(***************************************************************************)
(* PID controller (pid_control.c)                                          *)
(*                                                                         *)
(* A double is modelled as an integer count of 1/FP.  The gains, limits,   *)
(* temperatures and time steps the specifications draw are such that every *)
(* product and quotient below is a whole number of 1/FP (PidExact), so the *)
(* model computes what the code computes without rounding.                 *)
(***************************************************************************)
FP == 100

Mul(a, b) == (a * b) \div FP

Div(a, b) == (a * FP) \div b

IsExactMul(a, b) == (a * b) % FP = 0

IsExactDiv(a, b) == (a * FP) % b = 0

\* pid_init(pid, kp, ki, kd, setpoint)
pid_init(kp, ki, kd, setpoint) ==
    [kp |-> kp, ki |-> ki, kd |-> kd, setpoint |-> setpoint,
     integral |-> 0, prev_error |-> 0,
     output |-> 30 * FP, output_min |-> 10 * FP, output_max |-> 100 * FP]

\* Mutant: only the upper side of the integral is clamped.
anti_windup_UpperOnly(p, integral) ==
    IF p.ki > 0
    THEN LET integral_limit == Div(p.output_max - p.output_min, p.ki)
         IN  IF integral > integral_limit THEN integral_limit ELSE integral
    ELSE integral

\* pid_compute, lines 58-63: integral_limit = (output_max - output_min) / ki,
\* applied only when ki > 0 (for ki = 0 the quotient is infinite and unused).
anti_windup(p, integral) ==
    IF p.ki > 0
    THEN LET integral_limit == Div(p.output_max - p.output_min, p.ki)
         IN  IF integral > integral_limit THEN integral_limit
             ELSE IF integral < 0 - integral_limit THEN 0 - integral_limit
             ELSE integral
    ELSE integral

\* Mutant: the upper clamp compares against the wrong bound and never acts.
clamp_output_NoUpper(p, output) ==
    IF output < p.output_min THEN p.output_min ELSE output

\* pid_compute, lines 78-80: output clamping.
clamp_output(p, output) ==
    LET lo == IF output < p.output_min THEN p.output_min ELSE output
    IN  IF lo > p.output_max THEN p.output_max ELSE lo

\* Mutant: the error has the sign of a heating loop.
pid_error_Reversed(p, current_temp) == p.setpoint - current_temp

\* pid_compute, line 50: positive error = too hot.
pid_error(p, current_temp) == current_temp - p.setpoint

\* pid_compute(pid, current_temp, dt): the controller after the call, with
\* the value returned and the unclamped integral and output.
pid_compute(p, current_temp, dt_in) ==
    LET dt == IF dt_in <= 0 THEN FP ELSE dt_in
        error == pid_error(p, current_temp)
        p_term == Mul(p.kp, error)
        summed == p.integral + Mul(error, dt)
        integral == anti_windup(p, summed)
        i_term == Mul(p.ki, integral)
        derivative == Div(error - p.prev_error, dt)
        d_term == Mul(p.kd, derivative)
        raw == p_term + i_term + d_term + 40 * FP
        output == clamp_output(p, raw)
    IN  [pid |-> [p EXCEPT !.integral = integral, !.prev_error = error,
                           !.output = output],
         ret |-> output,
         temp |-> current_temp,
         summed |-> summed,
         raw |-> raw,
         exact |-> /\ IsExactMul(p.kp, error)
                   /\ IsExactMul(error, dt)
                   /\ IsExactMul(p.ki, integral)
                   /\ IsExactDiv(error - p.prev_error, dt)
                   /\ IsExactMul(p.kd, derivative)
                   /\ (p.ki > 0 => IsExactDiv(p.output_max - p.output_min, p.ki))]

\* Mutant: the reset forgets prev_error.
pid_reset_KeepError(p) == [p EXCEPT !.integral = 0]

\* pid_reset
pid_reset(p) == [p EXCEPT !.integral = 0, !.prev_error = 0]

\* Mutant: only min > max is rejected.
pid_set_output_limits_AllowEqual(p, min, max) ==
    IF min > max THEN p
    ELSE LET lo == IF p.output < min THEN min ELSE p.output
             out == IF lo > max THEN max ELSE lo
         IN  [p EXCEPT !.output_min = min, !.output_max = max, !.output = out]

\* pid_set_output_limits(pid, min, max)
pid_set_output_limits(p, min, max) ==
    IF min >= max THEN p
    ELSE LET lo == IF p.output < min THEN min ELSE p.output
             out == IF lo > max THEN max ELSE lo
         IN  [p EXCEPT !.output_min = min, !.output_max = max, !.output = out]

\* Controller tunings <<kp, ki, kd, setpoint>>: main.c's, test_pid.c's two,
\* one without integral action, and one with every gain zero.
Tunings ==
    { <<3 * FP, FP \div 10, (3 * FP) \div 2, 65 * FP>>,
      <<2 * FP, FP \div 10, FP \div 2, 65 * FP>>,
      <<10 * FP, FP, 0, 65 * FP>>,
      <<2 * FP, 0, FP \div 2, 65 * FP>>,
      <<0, 0, 0, 65 * FP>> }

\* Temperatures given to pid_compute: the sensor clamp's ends 5 and 105, the
\* setpoint, values on both sides of it, and far outliers.
TempInputs == {(0 - 1000) * FP, 5 * FP, 40 * FP, 65 * FP, 75 * FP, 105 * FP, 1000 * FP}

\* Time steps given to pid_compute: invalid (0), 1 s, the supervisor's 2 s.
DtInputs == {0, FP, 2 * FP}

\* <<min, max>> given to pid_set_output_limits: main.c's, test_pid.c's, a
\* range above the base duty of 40, and two that are rejected.
LimitInputs ==
    { <<10 * FP, 100 * FP>>, <<20 * FP, 80 * FP>>, <<50 * FP, 90 * FP>>,
      <<50 * FP, 50 * FP>>, <<80 * FP, 20 * FP>> }

\* Ghost of the PID calls: the last call and what the last pid_compute
\* returned, with its unclamped integral and output; while the last call
\* is a pid_compute, its temperature and the call that came before it;
\* whether the pid_reset just made (or just before the compute) cleared
\* anything; while the last call is a pid_set_output_limits, its
\* <<min, max>>.
PidGhostInit == [last |-> "init", ret |-> 0, summed |-> 0, raw |-> 0,
                 calls |-> 0, exact |-> TRUE, before |-> "init", temp |-> 0,
                 wiped |-> FALSE, lim |-> <<0, 0>>]

\* The ghost after a pid_compute with result r.
PidGhostAfter(r, calls) ==
    [pid_ghost EXCEPT !.last = "compute", !.ret = r.ret, !.summed = r.summed,
                      !.raw = r.raw, !.calls = calls,
                      !.exact = pid_ghost.exact /\ r.exact,
                      !.before = pid_ghost.last, !.temp = r.temp,
                      !.wiped = pid_ghost.last = "reset" /\ pid_ghost.wiped,
                      !.lim = <<0, 0>>]

\* The controller as main() leaves it: pid_init(3.0, 0.1, 1.5, 65.0) and
\* pid_set_output_limits(10, 100).
PidMain ==
    /\ pid = pid_set_output_limits(
                pid_init(3 * FP, FP \div 10, (3 * FP) \div 2, 65 * FP),
                10 * FP, 100 * FP)
    /\ pid_ghost = PidGhostInit

PidCompute ==
    /\ pid_ghost.calls < MaxComputes
    /\ \E current_temp \in TempInputs, dt \in DtInputs :
          LET r == pid_compute(pid, current_temp, dt)
          IN  /\ pid' = r.pid
              /\ pid_ghost' = PidGhostAfter(r, pid_ghost.calls + 1)
    /\ UNCHANGED <<selVars, bootVars, restVars>>

PidReset ==
    /\ pid_ghost.last # "reset"
    /\ pid' = pid_reset(pid)
    /\ pid_ghost' = [pid_ghost EXCEPT !.last = "reset", !.before = "init",
                                      !.temp = 0, !.lim = <<0, 0>>,
                                      !.ret = 0, !.summed = 0, !.raw = 0,
                                      !.wiped = pid.integral # 0 \/ pid.prev_error # 0]
    /\ UNCHANGED <<selVars, bootVars, restVars>>

PidSetOutputLimits ==
    /\ pid_ghost.last # "limits"
    /\ \E lim \in LimitInputs :
          /\ pid' = pid_set_output_limits(pid, lim[1], lim[2])
          /\ pid_ghost' = [pid_ghost EXCEPT !.last = "limits", !.lim = lim,
                                            !.before = "init", !.temp = 0,
                                            !.summed = 0, !.raw = 0,
                                            !.wiped = FALSE]
    /\ UNCHANGED <<selVars, bootVars, restVars>>

(***************************************************************************)
(* Sensors (sensor.c); values and thresholds in units of 1/FP              *)
(***************************************************************************)
\* default_sensors: name, type, base_value, noise_stddev, min_valid,
\* max_warning, max_critical.
default_sensors ==
    << [name |-> "CPU_Temp", type |-> SENSOR_TYPE_TEMPERATURE, base_value |-> 5500,
        noise_stddev |-> 150, min_valid |-> 1000, max_warning |-> 7500,
        max_critical |-> 9000],
       [name |-> "Inlet_Temp", type |-> SENSOR_TYPE_TEMPERATURE, base_value |-> 2800,
        noise_stddev |-> 80, min_valid |-> 500, max_warning |-> 3800,
        max_critical |-> 4500],
       [name |-> "PCH_Temp", type |-> SENSOR_TYPE_TEMPERATURE, base_value |-> 4800,
        noise_stddev |-> 100, min_valid |-> 1000, max_warning |-> 7000,
        max_critical |-> 8500],
       [name |-> "VCore", type |-> SENSOR_TYPE_VOLTAGE, base_value |-> 105,
        noise_stddev |-> 2, min_valid |-> 90, max_warning |-> 115,
        max_critical |-> 125],
       [name |-> "V3.3_Stdby", type |-> SENSOR_TYPE_VOLTAGE, base_value |-> 330,
        noise_stddev |-> 3, min_valid |-> 310, max_warning |-> 350,
        max_critical |-> 360],
       [name |-> "V12_Main", type |-> SENSOR_TYPE_VOLTAGE, base_value |-> 1200,
        noise_stddev |-> 8, min_valid |-> 1140, max_warning |-> 1260,
        max_critical |-> 1300],
       [name |-> "CPU_Fan", type |-> SENSOR_TYPE_FAN_RPM, base_value |-> 300000,
        noise_stddev |-> 5000, min_valid |-> 50000, max_warning |-> 600000,
        max_critical |-> 700000],
       [name |-> "SYS_Fan", type |-> SENSOR_TYPE_FAN_RPM, base_value |-> 250000,
        noise_stddev |-> 4000, min_valid |-> 40000, max_warning |-> 500000,
        max_critical |-> 600000] >>

NUM_DEFAULT_SENSORS == Len(default_sensors)

SensorIndex == 0..(MAX_SENSORS - 1)

\* sensor_status_str
sensor_status_str(status) ==
    CASE status = SENSOR_STATUS_OK -> "OK"
      [] status = SENSOR_STATUS_WARNING -> "Warning"
      [] status = SENSOR_STATUS_CRITICAL -> "Critical"
      [] status = SENSOR_STATUS_ABSENT -> "Absent"
      [] OTHER -> "Unknown"

\* Mutant: a fan is classified like a temperature or a voltage.
evaluate_status_NoFanBranch(s) ==
    IF s.value >= s.max_critical THEN SENSOR_STATUS_CRITICAL
    ELSE IF s.value >= s.max_warning THEN SENSOR_STATUS_WARNING
    ELSE IF s.value < s.min_valid THEN SENSOR_STATUS_WARNING
    ELSE SENSOR_STATUS_OK

\* evaluate_status
evaluate_status(s) ==
    IF s.type = SENSOR_TYPE_FAN_RPM
    THEN IF s.value < s.min_valid THEN SENSOR_STATUS_CRITICAL
         ELSE IF s.value > s.max_critical THEN SENSOR_STATUS_CRITICAL
         ELSE IF s.value > s.max_warning THEN SENSOR_STATUS_WARNING
         ELSE SENSOR_STATUS_OK
    ELSE IF s.value >= s.max_critical THEN SENSOR_STATUS_CRITICAL
         ELSE IF s.value >= s.max_warning THEN SENSOR_STATUS_WARNING
         ELSE IF s.value < s.min_valid THEN SENSOR_STATUS_WARNING
         ELSE SENSOR_STATUS_OK

\* A sensor_reading_t after memset(state, 0, ...).
ZeroSensor ==
    [name |-> "", type |-> 0, value |-> 0, min_valid |-> 0, max_warning |-> 0,
     max_critical |-> 0, status |-> 0]

\* sensor_init: the sensors array it builds (last_updated is not modelled).
sensor_init ==
    [i \in SensorIndex |->
        IF i < NUM_DEFAULT_SENSORS
        THEN LET cfg == default_sensors[i + 1]
             IN  [name |-> cfg.name, type |-> cfg.type, value |-> cfg.base_value,
                  min_valid |-> cfg.min_valid, max_warning |-> cfg.max_warning,
                  max_critical |-> cfg.max_critical, status |-> SENSOR_STATUS_OK]
        ELSE ZeroSensor]

\* sensor_poll, lines 175-223: the new value of sensor s.  draw is the
\* Gaussian noise of this sample for a voltage or a fan.  For a temperature
\* the first-order step value + 0.1 * (target - value) + noise is not a
\* whole number of 1/FP, so draw is taken as the value that step arrives
\* at; the clamp to [5, 105] is applied to it as in the code.
poll_value(s, cfg, fan_duty, draw) ==
    CASE s.type = SENSOR_TYPE_TEMPERATURE ->
            IF draw < 5 * FP THEN 5 * FP
            ELSE IF draw > 105 * FP THEN 105 * FP ELSE draw
      [] s.type = SENSOR_TYPE_VOLTAGE ->
            IF cfg.base_value + draw < 0 THEN 0 ELSE cfg.base_value + draw
      [] s.type = SENSOR_TYPE_FAN_RPM ->
            LET max_rpm == cfg.base_value * 2
                v == Mul(fan_duty, max_rpm \div 100) + draw
            IN  IF v < 0 THEN 0 ELSE v
      [] OTHER -> s.value

\* sensor_poll, lines 225-226: store the value and classify it.
poll_sensor(s, cfg, fan_duty, draw) ==
    LET v == [s EXCEPT !.value = poll_value(s, cfg, fan_duty, draw)]
    IN  [v EXCEPT !.status = evaluate_status(v)]

\* Mutant: every status change is logged, also one to OK.
poll_log_AnyChange(L, old_status, s) ==
    IF s.status # old_status
    THEN sel_add_entry(L,
            IF s.status = SENSOR_STATUS_CRITICAL THEN SEL_SEVERITY_CRITICAL
            ELSE SEL_SEVERITY_WARNING,
            "Sensor",
            <<"transitioned to", s.name, sensor_status_str(s.status), s.value>>)
    ELSE L

\* sensor_poll, lines 229-235: the SEL entry for a status change into a
\* status other than OK.
poll_log(L, old_status, s) ==
    IF s.status # old_status /\ s.status # SENSOR_STATUS_OK
    THEN sel_add_entry(L,
            IF s.status = SENSOR_STATUS_CRITICAL THEN SEL_SEVERITY_CRITICAL
            ELSE SEL_SEVERITY_WARNING,
            "Sensor",
            <<"transitioned to", s.name, sensor_status_str(s.status), s.value>>)
    ELSE L

RECURSIVE poll_loop(_, _, _, _)
\* sensor_poll(state, fan_duty) from loop index i on; P carries the sensors
\* and the log, draws[i + 1] is the sample drawn for sensor i.
poll_loop(P, fan_duty, draws, i) ==
    IF i >= sensor_count THEN P
    ELSE LET s == poll_sensor(P.sensors[i], default_sensors[i + 1], fan_duty,
                              draws[i + 1])
         IN  poll_loop([sensors |-> [P.sensors EXCEPT ![i] = s],
                        log |-> poll_log(P.log, P.sensors[i].status, s)],
                       fan_duty, draws, i + 1)

\* find_cpu_temp_sensor
find_cpu_temp_sensor ==
    LET hits == {i \in 0..(sensor_count - 1) : sensors[i].name = "CPU_Temp"}
    IN  IF hits = {} THEN 0 ELSE CHOOSE i \in hits : \A j \in hits : i <= j

\* The sensor part of the state after bmc_state_init and sensor_init.
SensorMain ==
    /\ sensors = sensor_init
    /\ sensor_count =
          (IF NUM_DEFAULT_SENSORS > MAX_SENSORS THEN MAX_SENSORS ELSE NUM_DEFAULT_SENSORS)
    /\ fan_duty_percent = 30 * FP

(***************************************************************************)
(* State snapshot (bmc_state.c)                                            *)
(***************************************************************************)
\* The document bmc_state_save serialises, lines 107-134: its three
\* top-level members in the order they are added.
state_to_json ==
    << [sensors |-> [i \in 0..(sensor_count - 1) |-> sensors[i]]],
       [thermal |-> [fan_duty_percent |-> fan_duty_percent,
                     pid |-> [kp |-> pid.kp, ki |-> pid.ki, kd |-> pid.kd,
                              setpoint |-> pid.setpoint, output |-> pid.output,
                              integral |-> pid.integral,
                              prev_error |-> pid.prev_error]]],
       [secure_boot |-> [overall_passed |-> secure_boot_passed,
                         images |-> [i \in 0..(fw_image_count - 1) |-> fw_images[i]]]] >>

\* A file that does not exist; an existing file holds the members of the
\* document written to it so far.
NoDoc == [exists |-> FALSE, chunks |-> <<>>]

\* No bmc_state_save in progress: the supervisor is at pc ("tick" before the
\* locked section of its loop, "call" before bmc_state_save), n calls were
\* made, the last returned ret and found the target file holding prev.
\* short is a ghost: some write of some call was cut short.
SaveIdle(pc, n, ret, prev) ==
    [pc |-> pc, doc |-> <<>>, n |-> n, ret |-> ret, prev |-> prev,
     short |-> save.short]

SaveZero ==
    /\ state_file = NoDoc
    /\ tmp_file = NoDoc
    /\ save = [pc |-> "tick", doc |-> <<>>, n |-> 0, ret |-> 0, prev |-> NoDoc,
               short |-> FALSE]
    /\ observed = NoDoc

\* What no step of bmc_state_save or of the reader touches.
saveRest == <<selVars, bootVars, pidVars, sensorVars, running, threadVars>>

\* bmc_state_save, lines 137-138: the path that is opened and written.
save_path == "tmp"

\* The two files after op is applied to the one at path.
FilesAfter(path, content) ==
    IF path = "tmp"
    THEN [target |-> state_file, tmp |-> content]
    ELSE [target |-> content, tmp |-> tmp_file]

FileAt(path) == IF path = "tmp" THEN tmp_file ELSE state_file

SetFiles(F) == state_file' = F.target /\ tmp_file' = F.tmp

\* bmc_state_save, line 105: pthread_mutex_lock.
SaveLock ==
    /\ save.pc = "call"
    /\ lock = "free"
    /\ lock' = "sup"
    /\ save' = [save EXCEPT !.pc = "locked", !.n = @ + 1, !.prev = state_file]
    /\ UNCHANGED <<state_file, tmp_file, observed, saveRest>>

\* bmc_state_save, lines 107-134: build the document from the state.
SaveSerialize ==
    /\ save.pc = "locked"
    /\ save' = [save EXCEPT !.pc = "open", !.doc = state_to_json]
    /\ UNCHANGED <<lock, state_file, tmp_file, observed, saveRest>>

\* bmc_state_save, lines 138-145: fopen(tmp_path, "w") creates or truncates
\* the file, or fails, and then the lock is released and -1 returned.
SaveOpen ==
    /\ save.pc = "open"
    /\ \/ /\ SetFiles(FilesAfter(save_path, [exists |-> TRUE, chunks |-> <<>>]))
          /\ save' = [save EXCEPT !.pc = "write"]
          /\ UNCHANGED lock
       \/ /\ save' = SaveIdle("tick", save.n, 0 - 1, save.prev)
          /\ lock' = "free"
          /\ UNCHANGED <<state_file, tmp_file>>
    /\ UNCHANGED <<observed, saveRest>>

\* bmc_state_save, lines 147-150: fprintf and fclose; the document reaches
\* the file one piece after the other.  A write can fail (no space left,
\* file size limit), and nothing more reaches the file; the results of
\* fprintf and fclose are not looked at, so the call goes on to rename.
SaveWrite ==
    /\ save.pc = "write"
    /\ \/ LET f == FileAt(save_path)
              k == Len(f.chunks) + 1
          IN  /\ SetFiles(FilesAfter(save_path,
                       [f EXCEPT !.chunks = Append(@, save.doc[k])]))
              /\ save' = [save EXCEPT !.pc = IF k = Len(save.doc) THEN "rename"
                                             ELSE "write"]
       \/ /\ save' = [save EXCEPT !.pc = "rename", !.short = TRUE]
          /\ UNCHANGED <<state_file, tmp_file>>
    /\ UNCHANGED <<lock, observed, saveRest>>

\* bmc_state_save, line 153: rename(tmp_path, STATE_FILE_PATH) replaces the
\* target with the temporary file in one step (with no temporary file
\* there is nothing to rename and the call fails).
SaveRename ==
    /\ save.pc = "rename"
    /\ IF tmp_file.exists
       THEN state_file' = tmp_file /\ tmp_file' = NoDoc
       ELSE UNCHANGED <<state_file, tmp_file>>
    /\ save' = [save EXCEPT !.pc = "unlock"]
    /\ UNCHANGED <<lock, observed, saveRest>>

\* bmc_state_save, lines 155-157: unlock and return 0.
SaveUnlock ==
    /\ save.pc = "unlock"
    /\ lock' = "free"
    /\ save' = SaveIdle("tick", save.n, 0, save.prev)
    /\ UNCHANGED <<state_file, tmp_file, observed, saveRest>>

\* The external reader (the Redfish API) opens STATE_FILE_PATH and reads
\* the file it opened to its end.
ReadSnapshot ==
    /\ observed' = state_file
    /\ UNCHANGED <<state_file, tmp_file, save, lock, saveRest>>

(***************************************************************************)
(* Supervisor tick (main.c, lines 159-170)                                 *)
(***************************************************************************)
\* poll_interval
poll_interval == 2 * FP

\* Samples for one sensor_poll, one per sensor: temperatures as the values
\* the thermal step arrives at, voltages and fans as noise.  Nominal: every
\* temperature stays where it is (the noise cancels the drift of at most
\* 0.1 * (target - value)), voltages and fans get no noise.
NominalDraws == [i \in 1..MAX_SENSORS |->
    IF default_sensors[i].type = SENSOR_TYPE_TEMPERATURE
    THEN sensors[i - 1].value ELSE 0]

\* Nominal; the CPU 8 C warmer than at the poll before; the CPU fan 130 rpm
\* under its commanded speed.  Each is within the 9 standard deviations
\* that gaussian_noise can return (CPU_Temp 1.5 C, CPU_Fan 50 rpm).
DrawInputs ==
    { NominalDraws,
      [NominalDraws EXCEPT ![1] = sensors[0].value + 8 * FP],
      [NominalDraws EXCEPT ![7] = 0 - 130 * FP] }

\* Mutant: the poll is given the controller's last output, not the duty
\* stored in the state.
tick_poll_PidOutput(draws) ==
    poll_loop([sensors |-> sensors, log |-> Log], pid.output, draws, 0)

\* main, line 162: sensor_poll(&g_state, g_state.fan_duty_percent)
tick_poll(draws) ==
    poll_loop([sensors |-> sensors, log |-> Log], fan_duty_percent, draws, 0)

\* main, lines 165-167: pid_compute on the CPU temperature just polled.
tick_pid(polled) ==
    pid_compute(pid, polled[find_cpu_temp_sensor].value, poll_interval)

\* The locked section of one loop iteration of main as a single step: no
\* other thread runs in SpecSave.
SaveTick ==
    /\ save.pc = "tick"
    /\ save.n < MaxSaves
    /\ lock = "free"
    /\ \E draws \in DrawInputs :
          LET P == tick_poll(draws)
              r == tick_pid(P.sensors)
          IN  /\ sensors' = P.sensors
              /\ SetLog(P.log)
              /\ pid' = r.pid
              /\ pid_ghost' = PidGhostAfter(r, pid_ghost.calls)
              /\ fan_duty_percent' = r.ret
    /\ save' = [save EXCEPT !.pc = "call"]
    /\ UNCHANGED <<bootVars, sensor_count, running, lock, state_file, tmp_file,
                   observed, threadVars>>

(***************************************************************************)
(* IPMI commands (ipmi.h, ipmi.c)                                          *)
(***************************************************************************)
IPMI_NETFN_SENSOR == 4
IPMI_NETFN_APP == 6
IPMI_NETFN_STORAGE == 10

IPMI_CMD_GET_DEVICE_ID == 1
IPMI_CMD_GET_SENSOR_READING == 45
IPMI_CMD_SET_FAN_DUTY == 48
IPMI_CMD_GET_SEL_ENTRY == 67

IPMI_CC_OK == 0
IPMI_CC_INVALID_CMD == 193
IPMI_CC_INVALID_PARAM == 201

\* An ipmi_response_t after memset and the completion code: data_len 0 and
\* no byte of data written.
Resp(cc) == [completion_code |-> cc, data |-> <<>>, data_len |-> 0]

\* handle_get_device_id
handle_get_device_id ==
    [completion_code |-> IPMI_CC_OK, data |-> <<32, 1, 2, 5, 2>>, data_len |-> 5]

\* handle_get_sensor_reading, line 79: (int16_t)(s->value * 256.0).  The
\* conversion truncates; a product outside int16_t is undefined, and the
\* outcomes kept are the wrapped and the two saturated values.
RawOutcomes(value) ==
    LET t == (value * 256) \div FP
    IN  IF t <= 32767 THEN {t}
        ELSE {((t + 32768) % 65536) - 32768, 32767, 0 - 32768}

\* handle_get_sensor_reading, lines 76-84: the response for sensor s.
pack_reading(s, raw) ==
    [completion_code |-> IPMI_CC_OK,
     data |-> << ((raw + 65536) % 65536) \div 256, (raw + 65536) % 256,
                 s.status, s.type >>,
     data_len |-> 4]

\* The number of characters printf writes for a non-negative integer.
Digits(n) == IF n < 10 THEN 1 ELSE IF n < 100 THEN 2 ELSE IF n < 1000 THEN 3
             ELSE IF n < 10000 THEN 4 ELSE 5

\* strlen(entry->message) for the text vsnprintf wrote from the format and
\* arguments of each sel_add_entry call; <<"text", n>> is a caller's text
\* of n bytes.
strlen(message) ==
    LET f == message[1]
    IN  IF f = "text" THEN message[2]
        ELSE IF f = "Fan duty manually set to" THEN 26 + Digits(message[2])
        ELSE IF f = "transitioned to"
        THEN Len(message[2]) + 17 + Len(message[3]) + 9
                 + Digits(message[4] \div FP) + 3 + 1
        ELSE IF f = "Secure boot chain initialized with images"
        THEN 42 + Digits(message[2])
        ELSE IF f = "FAIL: Cannot read image" THEN 26 + Len(message[2])
        ELSE IF f = "PASS: Image integrity verified" THEN 33 + Len(message[2])
        ELSE IF f = "FAIL: Image hash mismatch - possible tampering!"
        THEN 50 + Len(message[2])
        ELSE IF f = "[DEMO] Injected tamper into" THEN 30 + Len(message[2])
        ELSE IF f = "[DEMO] Restored image" THEN 24 + Len(message[2])
        ELSE IF f = "entry" THEN 6 + Digits(message[2])
        ELSE Len(f)

\* Mutant: the message is copied whole.
msg_len_NoCap(message) == strlen(message)

\* handle_get_sel_entry, lines 142-143: the number of message bytes copied.
msg_len(message) == IF strlen(message) > 200 THEN 200 ELSE strlen(message)

\* handle_get_sel_entry, lines 124-145: the response for the entry id asked
\* for.  The fourth item stands for bytes 3.. of data: the first len bytes
\* of the entry's message.  data_len is a uint8_t.
sel_entry_resp(L, entry_id) ==
    LET hit == sel_get_entry(L, entry_id)
    IN  IF hit = <<>> THEN Resp(IPMI_CC_INVALID_PARAM)
        ELSE [completion_code |-> IPMI_CC_OK,
              data |-> << (hit[1].id \div 256) % 256, hit[1].id % 256,
                          hit[1].severity,
                          [text |-> hit[1].message,
                           len |-> msg_len(hit[1].message)] >>,
              data_len |-> (3 + msg_len(hit[1].message)) % 256]

\* Mutant: an unknown command is answered as a bad parameter.
invalid_cmd_AsParam == Resp(IPMI_CC_INVALID_PARAM)

\* ipmi_handle_command, lines 163, 173, 181 and 186
invalid_cmd == Resp(IPMI_CC_INVALID_CMD)

\* Mutant: the last sensor is out of range too.
sensor_num_ok_OffByOne(sensor_num) == ~(sensor_num >= sensor_count - 1)

\* handle_get_sensor_reading, line 68: the index names a sensor.
sensor_num_ok(sensor_num) == ~(sensor_num >= sensor_count)

\* Mutant: no upper limit on the duty.
duty_ok_NoUpper(duty) == ~(duty < 0)

\* Mutant: the limits 0 and 100 themselves are rejected.
duty_ok_Exclusive(duty) == ~(duty <= 0 \/ duty >= 100)

\* handle_set_fan_duty, line 99: the duty, data[0] as a double, is in range.
duty_ok(duty) == ~(duty < 0 \/ duty > 100)

\* ipmi_handle_command with the checks each handler makes before it takes
\* the lock: the response when the request ends there, or the handler that
\* goes on to the state.
dispatch(req) ==
    IF req.netfn = IPMI_NETFN_APP
    THEN [next |-> "loop",
          resp |-> IF req.cmd = IPMI_CMD_GET_DEVICE_ID
                   THEN handle_get_device_id ELSE invalid_cmd]
    ELSE IF req.netfn = IPMI_NETFN_SENSOR /\ req.cmd = IPMI_CMD_GET_SENSOR_READING
    THEN IF Len(req.data) < 1 \/ ~sensor_num_ok(req.data[1])
         THEN [next |-> "loop", resp |-> Resp(IPMI_CC_INVALID_PARAM)]
         ELSE [next |-> "gsr", resp |-> Resp(0)]
    ELSE IF req.netfn = IPMI_NETFN_SENSOR /\ req.cmd = IPMI_CMD_SET_FAN_DUTY
    THEN IF Len(req.data) < 1 \/ ~duty_ok(req.data[1])
         THEN [next |-> "loop", resp |-> Resp(IPMI_CC_INVALID_PARAM)]
         ELSE [next |-> "sfd_lock", resp |-> Resp(0)]
    ELSE IF req.netfn = IPMI_NETFN_STORAGE /\ req.cmd = IPMI_CMD_GET_SEL_ENTRY
    THEN IF Len(req.data) < 2
         THEN [next |-> "loop", resp |-> Resp(IPMI_CC_INVALID_PARAM)]
         ELSE [next |-> "gse", resp |-> Resp(0)]
    ELSE [next |-> "loop", resp |-> invalid_cmd]

\* Requests a client sends: a sensor reading, a fan duty in and out of
\* range, an SEL entry.
RequestInputs ==
    { [netfn |-> IPMI_NETFN_SENSOR, cmd |-> IPMI_CMD_GET_SENSOR_READING, data |-> <<0>>],
      [netfn |-> IPMI_NETFN_SENSOR, cmd |-> IPMI_CMD_SET_FAN_DUTY, data |-> <<50>>],
      [netfn |-> IPMI_NETFN_SENSOR, cmd |-> IPMI_CMD_SET_FAN_DUTY, data |-> <<101>>],
      [netfn |-> IPMI_NETFN_STORAGE, cmd |-> IPMI_CMD_GET_SEL_ENTRY, data |-> <<0, 1>>] }

NoSlot == [idx |-> 0, id |-> 0]

NoRequest == [netfn |-> 0, cmd |-> 0, data |-> <<>>]

\* The supervisor before ipmi_start_listener: no loop iteration made, the
\* listening socket not yet open (texts counts the sel_add_entry calls a
\* caller of the library makes with a text of its own).
SupZero ==
    [pc |-> "start", ticks |-> 0, site |-> "op", slot |-> NoSlot,
     new_duty |-> 0, server_fd |-> "none", texts |-> 0, entries |-> <<>>]

\* The listener thread before pthread_create.
LisZero ==
    [pc |-> "off", reqs |-> 0, req |-> NoRequest, slot |-> NoSlot,
     resp |-> Resp(0), conns |-> 0, writes |-> 0]

(***************************************************************************)
(* Supervisor thread (main.c, lines 138-198)                               *)
(***************************************************************************)
\* Mutant: a listener that cannot be started ends the supervisor.
StartListener_Fatal ==
    /\ sup.pc = "start"
    /\ \/ /\ lis' = [lis EXCEPT !.pc = "loop"]
          /\ sup' = [sup EXCEPT !.pc = "add_slot", !.site = "op",
                                !.server_fd = "open"]
       \/ /\ UNCHANGED lis
          /\ sup' = [sup EXCEPT !.pc = "stop"]
    /\ UNCHANGED <<selVars, bootVars, pidVars, sensorVars, running, lock,
                   saveVars>>

\* main, lines 140-143: ipmi_start_listener opens the socket and creates
\* the listener thread, or fails, which is not fatal.
StartListener ==
    /\ sup.pc = "start"
    /\ \/ /\ lis' = [lis EXCEPT !.pc = "loop"]
          /\ sup' = [sup EXCEPT !.pc = "add_slot", !.site = "op",
                                !.server_fd = "open"]
       \/ /\ UNCHANGED lis
          /\ sup' = [sup EXCEPT !.pc = "add_slot", !.site = "op"]
    /\ UNCHANGED <<selVars, bootVars, pidVars, sensorVars, running, lock,
                   saveVars>>

\* The message of the sel_add_entry call the supervisor is in: main, lines
\* 149-150 and 192-193.
SupMessage ==
    IF sup.site = "op" THEN <<"BMC daemon fully operational">>
    ELSE <<"BMC daemon shutting down">>

\* sel_add_entry called by main without the lock, lines 42-50: evict when
\* full, read sel_count and sel_next_id.
SupAppendSlot ==
    /\ sup.pc = "add_slot"
    /\ SetLog(sel_evict(Log))
    /\ sup' = [sup EXCEPT !.pc = "add_fill", !.slot = sel_slot(sel_evict(Log))]
    /\ UNCHANGED <<bootVars, pidVars, sensorVars, running, lock, saveVars, lis>>

\* sel_add_entry called by main without the lock, lines 50-60.
SupAppendFill ==
    /\ sup.pc = "add_fill"
    /\ SetLog(sel_fill(Log, sup.slot, SEL_SEVERITY_INFO, "System", SupMessage))
    /\ sup' = [sup EXCEPT !.pc = "add_bump"]
    /\ UNCHANGED <<bootVars, pidVars, sensorVars, running, lock, saveVars, lis>>

\* sel_add_entry called by main without the lock, lines 62-73; then main
\* goes on to its loop or to the last steps of the shutdown.
SupAppendBump ==
    /\ sup.pc = "add_bump"
    /\ SetLog(sel_bump(Log, SEL_SEVERITY_INFO))
    /\ sup' = [sup EXCEPT !.pc = IF sup.site = "op" THEN "loop" ELSE "final",
                          !.slot = NoSlot]
    /\ UNCHANGED <<bootVars, pidVars, sensorVars, running, lock, saveVars, lis>>

\* main, line 156: while (g_state.running), read without the lock.
SupLoop ==
    /\ sup.pc = "loop"
    /\ running => sup.ticks < MaxTicks
    /\ sup' = [sup EXCEPT !.pc = IF running THEN "lock" ELSE "stop"]
    /\ UNCHANGED <<selVars, bootVars, pidVars, sensorVars, running, lock,
                   saveVars, lis>>

\* main, line 159: pthread_mutex_lock
SupLock ==
    /\ sup.pc = "lock"
    /\ lock = "free"
    /\ lock' = "sup"
    /\ sup' = [sup EXCEPT !.pc = "poll"]
    /\ UNCHANGED <<selVars, bootVars, pidVars, sensorVars, running, saveVars, lis>>

\* main, line 162: sensor_poll
SupPoll ==
    /\ sup.pc = "poll"
    /\ \E draws \in DrawInputs :
          /\ sensors' = tick_poll(draws).sensors
          /\ SetLog(tick_poll(draws).log)
    /\ sup' = [sup EXCEPT !.pc = "pid"]
    /\ UNCHANGED <<bootVars, pidVars, sensor_count, fan_duty_percent, running,
                   lock, saveVars, lis>>

\* main, lines 165-167: pid_compute into the local new_duty
SupPid ==
    /\ sup.pc = "pid"
    /\ pid' = tick_pid(sensors).pid
    /\ pid_ghost' = PidGhostAfter(tick_pid(sensors), pid_ghost.calls)
    /\ sup' = [sup EXCEPT !.pc = "duty", !.new_duty = tick_pid(sensors).ret]
    /\ UNCHANGED <<selVars, bootVars, sensorVars, running, lock, saveVars, lis>>

\* main, line 168: g_state.fan_duty_percent = new_duty
SupDuty ==
    /\ sup.pc = "duty"
    /\ fan_duty_percent' = sup.new_duty
    /\ sup' = [sup EXCEPT !.pc = "unlock", !.new_duty = 0]
    /\ UNCHANGED <<selVars, bootVars, pidVars, sensors, sensor_count, running,
                   lock, saveVars, lis>>

\* main, line 170: pthread_mutex_unlock
SupUnlock ==
    /\ sup.pc = "unlock"
    /\ lock' = "free"
    /\ sup' = [sup EXCEPT !.pc = "save"]
    /\ UNCHANGED <<selVars, bootVars, pidVars, sensorVars, running, saveVars, lis>>

\* main, line 173: bmc_state_save from lock to unlock.  No other thread
\* touches what it reads or the files it writes, so the call is one step:
\* the target is replaced by the new document, or the temporary file could
\* not be opened and -1 is returned (a write that fails half-way is
\* followed step by step in SpecSave).
SupSave ==
    /\ sup.pc = "save"
    /\ lock = "free"
    /\ \/ /\ state_file' = [exists |-> TRUE, chunks |-> state_to_json]
          /\ save' = [save EXCEPT !.ret = 0]
       \/ /\ UNCHANGED state_file
          /\ save' = [save EXCEPT !.ret = 0 - 1]
    /\ sup' = [sup EXCEPT !.pc = "sel_save"]
    /\ UNCHANGED <<selVars, bootVars, pidVars, sensorVars, running, lock,
                   tmp_file, observed, lis>>

\* main, line 174: sel_save called without the lock; the loop over the
\* entries (event_log.c, lines 90-105).
SupSelSaveRead ==
    /\ sup.pc = "sel_save"
    /\ sup' = [sup EXCEPT !.pc = "sel_write", !.entries = sel_save_entries(Log)]
    /\ UNCHANGED <<selVars, bootVars, pidVars, sensorVars, running, lock,
                   saveVars, lis>>

\* main, lines 174-185: the rest of sel_save, called without the lock
\* (event_log.c, lines 107-124), and the sleep that ends the iteration.
SupSelSave ==
    /\ sup.pc = "sel_write"
    /\ SetLog(sel_save_write(Log, sup.entries))
    /\ sup' = [sup EXCEPT !.pc = "loop", !.ticks = sup.ticks + 1,
                          !.entries = <<>>]
    /\ UNCHANGED <<bootVars, pidVars, sensorVars, running, lock, saveVars, lis>>

\* main, line 190: ipmi_stop_listener closes the socket and unlinks its
\* path; the thread is not joined.
SupStop ==
    /\ sup.pc = "stop"
    /\ sup' = [sup EXCEPT !.pc = "cleanup",
                          !.server_fd = IF sup.server_fd = "open" THEN "closed"
                                        ELSE sup.server_fd]
    /\ UNCHANGED <<selVars, bootVars, pidVars, sensorVars, running, lock,
                   saveVars, lis>>

\* main, line 191: secure_boot_cleanup removes FW_IMAGE_DIR; the call of
\* sel_add_entry of lines 192-193 follows.
SupCleanup ==
    /\ sup.pc = "cleanup"
    /\ sup' = [sup EXCEPT !.pc = "add_slot", !.site = "down"]
    /\ blob' = NoBlobs
    /\ fw_dir' = FALSE
    /\ UNCHANGED <<selVars, fw_images, fw_image_count, secure_boot_passed,
                   boot_hist, verify_ret, pidVars, sensorVars, running, lock,
                   saveVars, lis>>

\* main, lines 194-198: sel_save, bmc_state_destroy (running = false, the
\* mutex destroyed, both files removed) and the return from main, which
\* ends the process and the listener thread with it.
SupFinal ==
    /\ sup.pc = "final"
    /\ SetLog([Log EXCEPT !.sel_file = NoFile])
    /\ running' = FALSE
    /\ lock' = "destroyed"
    /\ state_file' = NoDoc
    /\ sup' = [sup EXCEPT !.pc = "done"]
    /\ UNCHANGED <<bootVars, pidVars, sensorVars, tmp_file, save, observed, lis>>

\* signal_handler (SIGINT, SIGTERM): g_state.running = false
Signal ==
    /\ running
    /\ sup.pc \notin {"done", "killed"}
    /\ running' = FALSE
    /\ UNCHANGED <<selVars, bootVars, pidVars, sensorVars, lock, saveVars,
                   threadVars>>

(***************************************************************************)
(* Listener thread (ipmi.c, lines 195-223)                                 *)
(***************************************************************************)
\* The thread exists and the process has not ended.
LisAlive == lis.pc \notin {"off", "exit", "killed"} /\ sup.pc # "done"

\* ipmi_listener_fn, line 200: while (g_state && g_state->running)
LisLoop ==
    /\ LisAlive
    /\ lis.pc = "loop"
    /\ lis' = [lis EXCEPT !.pc = IF running THEN "accept" ELSE "exit"]
    /\ UNCHANGED <<selVars, bootVars, pidVars, sensorVars, running, lock,
                   saveVars, sup>>

\* ipmi_listener_fn, lines 204-215: a client connects and sends one of the
\* requests; read returns n > 0 and ipmi_handle_command answers at once or
\* enters a handler.
LisAcceptFrom(requests) ==
    /\ LisAlive
    /\ lis.pc = "accept"
    /\ sup.server_fd = "open"
    /\ lis.conns < MaxRequests
    /\ \E req \in requests :
          lis' = [lis EXCEPT !.pc = IF dispatch(req).next = "loop" THEN "write"
                                    ELSE dispatch(req).next,
                             !.req = req,
                             !.reqs = lis.reqs + 1,
                             !.conns = lis.conns + 1,
                             !.resp = dispatch(req).resp]
    /\ UNCHANGED <<selVars, bootVars, pidVars, sensorVars, running, lock,
                   saveVars, sup>>

LisAccept == LisAcceptFrom(RequestInputs)

\* ipmi_listener_fn, lines 204-219: a client connects and sends nothing
\* before it closes, or the read fails; n <= 0, no command is handled, no
\* response written, and the connection is closed.
LisReadNothing ==
    /\ LisAlive
    /\ lis.pc = "accept"
    /\ sup.server_fd = "open"
    /\ lis.conns < MaxRequests
    /\ lis' = [lis EXCEPT !.pc = "loop", !.conns = lis.conns + 1]
    /\ UNCHANGED <<selVars, bootVars, pidVars, sensorVars, running, lock,
                   saveVars, sup>>

\* ipmi_listener_fn, lines 216-219: write(client_fd, &resp, sizeof(resp))
\* and close.  When the client has already closed its end, the write
\* raises SIGPIPE, for which main installs no handler (main.c, lines
\* 82-83): the process is terminated.
LisWrite ==
    /\ LisAlive
    /\ lis.pc = "write"
    /\ \/ /\ lis' = [lis EXCEPT !.pc = "loop", !.writes = lis.writes + 1]
          /\ UNCHANGED sup
       \/ /\ lis' = [lis EXCEPT !.pc = "killed"]
          /\ sup' = [sup EXCEPT !.pc = "killed"]
    /\ UNCHANGED <<selVars, bootVars, pidVars, sensorVars, running, lock,
                   saveVars>>

\* ipmi_listener_fn, line 206: accept fails on the closed socket.
LisAcceptFail ==
    /\ LisAlive
    /\ lis.pc = "accept"
    /\ sup.server_fd = "closed"
    /\ lis' = [lis EXCEPT !.pc = "loop"]
    /\ UNCHANGED <<selVars, bootVars, pidVars, sensorVars, running, lock,
                   saveVars, sup>>

\* handle_get_sensor_reading, lines 73-86, from lock to unlock.
LisGetSensorReading ==
    /\ LisAlive
    /\ lis.pc = "gsr"
    /\ lock = "free"
    /\ \E raw \in RawOutcomes(sensors[lis.req.data[1]].value) :
          lis' = [lis EXCEPT !.pc = "write",
                             !.resp = pack_reading(sensors[lis.req.data[1]], raw)]
    /\ UNCHANGED <<selVars, bootVars, pidVars, sensorVars, running, lock,
                   saveVars, sup>>

\* handle_get_sel_entry, lines 124-147, from lock to unlock.
LisGetSelEntry ==
    /\ LisAlive
    /\ lis.pc = "gse"
    /\ lock = "free"
    /\ lis' = [lis EXCEPT !.pc = "write",
                          !.resp = sel_entry_resp(Log,
                                      lis.req.data[1] * 256 + lis.req.data[2])]
    /\ UNCHANGED <<selVars, bootVars, pidVars, sensorVars, running, lock,
                   saveVars, sup>>

\* handle_set_fan_duty, line 104: pthread_mutex_lock
LisSetDutyLock ==
    /\ LisAlive
    /\ lis.pc = "sfd_lock"
    /\ lock = "free"
    /\ lock' = "lis"
    /\ lis' = [lis EXCEPT !.pc = "sfd_write"]
    /\ UNCHANGED <<selVars, bootVars, pidVars, sensorVars, running, saveVars, sup>>

\* handle_set_fan_duty, lines 105-106: write the duty and unlock.
LisSetDutyWrite ==
    /\ LisAlive
    /\ lis.pc = "sfd_write"
    /\ fan_duty_percent' = lis.req.data[1] * FP
    /\ lock' = "free"
    /\ lis' = [lis EXCEPT !.pc = "add_slot"]
    /\ UNCHANGED <<selVars, bootVars, pidVars, sensors, sensor_count, running,
                   saveVars, sup>>

\* handle_set_fan_duty, line 108: sel_add_entry after the unlock; its
\* lines 42-50.
LisAppendSlot ==
    /\ LisAlive
    /\ lis.pc = "add_slot"
    /\ SetLog(sel_evict(Log))
    /\ lis' = [lis EXCEPT !.pc = "add_fill", !.slot = sel_slot(sel_evict(Log))]
    /\ UNCHANGED <<bootVars, pidVars, sensorVars, running, lock, saveVars, sup>>

\* sel_add_entry called by handle_set_fan_duty, lines 50-60.
LisAppendFill ==
    /\ LisAlive
    /\ lis.pc = "add_fill"
    /\ SetLog(sel_fill(Log, lis.slot, SEL_SEVERITY_INFO, "IPMI",
                       <<"Fan duty manually set to", lis.req.data[1]>>))
    /\ lis' = [lis EXCEPT !.pc = "add_bump"]
    /\ UNCHANGED <<bootVars, pidVars, sensorVars, running, lock, saveVars, sup>>

\* sel_add_entry called by handle_set_fan_duty, lines 62-73, and the
\* handler's response, lines 111-112.
LisAppendBump ==
    /\ LisAlive
    /\ lis.pc = "add_bump"
    /\ SetLog(sel_bump(Log, SEL_SEVERITY_INFO))
    /\ lis' = [lis EXCEPT !.pc = "write", !.slot = NoSlot,
                          !.resp = Resp(IPMI_CC_OK)]
    /\ UNCHANGED <<bootVars, pidVars, sensorVars, running, lock, saveVars, sup>>

\* What the specifications of single subsystems leave alone: sensors as
\* sensor_init built them, the daemon running, the lock free, no snapshot.
RestMain ==
    /\ SensorMain
    /\ running = TRUE
    /\ lock = "free"
    /\ SaveZero
    /\ sup = SupZero
    /\ lis = LisZero

\* Mutant: the entry of lines 149-150 is appended before phase 2 logs the
\* result of the verification.
MainBooted_OperationalFirst(operational) ==
    /\ blob = InitImages(ZeroImages, NoBlobs).blob
    /\ fw_image_count = InitImages(ZeroImages, NoBlobs).count
    /\ fw_dir = TRUE
    /\ boot_hist = <<>>
    /\ LET L0 == sel_add_entry(ZeroLog, SEL_SEVERITY_INFO, "System",
                               <<"BMC daemon starting up">>)
           V == verify_loop([images |-> InitImages(ZeroImages, NoBlobs).images,
                             log |-> init_log(L0, fw_image_count),
                             all_passed |-> TRUE], 0)
           L1 == IF operational
                 THEN sel_add_entry(V.log, SEL_SEVERITY_INFO, "System",
                                    <<"BMC daemon fully operational">>)
                 ELSE V.log
       IN  /\ fw_images = V.images
           /\ secure_boot_passed = V.all_passed
           /\ verify_ret = V.all_passed
           /\ SetLogInit(
                IF V.all_passed
                THEN sel_add_entry(L1, SEL_SEVERITY_INFO, "System",
                                   <<"Secure boot verification passed">>)
                ELSE sel_add_entry(L1, SEL_SEVERITY_CRITICAL, "System",
                                   <<"Secure boot verification FAILED - continuing in degraded mode">>))

\* main, lines 88-136: the secure-boot state and the log when phase 3
\* begins (all four images verify, so the entry of line 134 is the one
\* appended); with operational, also the entry of lines 149-150, as when
\* the loop begins.
MainBooted(operational) ==
    /\ blob = InitImages(ZeroImages, NoBlobs).blob
    /\ fw_image_count = InitImages(ZeroImages, NoBlobs).count
    /\ fw_dir = TRUE
    /\ boot_hist = <<>>
    /\ LET L0 == sel_add_entry(ZeroLog, SEL_SEVERITY_INFO, "System",
                               <<"BMC daemon starting up">>)
           V == verify_loop([images |-> InitImages(ZeroImages, NoBlobs).images,
                             log |-> init_log(L0, fw_image_count),
                             all_passed |-> TRUE], 0)
           L1 == IF V.all_passed
                 THEN sel_add_entry(V.log, SEL_SEVERITY_INFO, "System",
                                    <<"Secure boot verification passed">>)
                 ELSE sel_add_entry(V.log, SEL_SEVERITY_CRITICAL, "System",
                                    <<"Secure boot verification FAILED - continuing in degraded mode">>)
       IN  /\ fw_images = V.images
           /\ secure_boot_passed = V.all_passed
           /\ verify_ret = V.all_passed
           /\ SetLogInit(
                IF operational
                THEN sel_add_entry(L1, SEL_SEVERITY_INFO, "System",
                                   <<"BMC daemon fully operational">>)
                ELSE L1)

(***************************************************************************)
(* SpecSel: a single thread appending to the log                           *)
(***************************************************************************)
SelSevInputs == IF sel_next_id <= FreeSevIds THEN Severities ELSE {SEL_SEVERITY_INFO}

SelAppend ==
    /\ sel_next_id <= MaxAppends
    /\ \E severity \in SelSevInputs :
          SetLog(sel_add_entry(Log, severity, "Test", <<"entry", sel_next_id>>))
    /\ UNCHANGED <<bootVars, pidVars, restVars>>

InitSel == SelInit /\ BootZero /\ PidMain /\ RestMain

NextSel == SelAppend

SpecSel == InitSel /\ [][NextSel]_vars

(***************************************************************************)
(* SpecBoot: any secure-boot calls by one thread, from the state main()    *)
(* has built when secure_boot_init returns                                 *)
(***************************************************************************)
\* main, lines 88-123: bmc_state_init, sel_init, the start-up SEL entry,
\* secure_boot_init.
InitBoot ==
    /\ SetLogInit(init_log(sel_add_entry(ZeroLog, SEL_SEVERITY_INFO, "System",
                                         <<"BMC daemon starting up">>),
                           InitImages(ZeroImages, NoBlobs).count))
    /\ fw_images = InitImages(ZeroImages, NoBlobs).images
    /\ fw_image_count = InitImages(ZeroImages, NoBlobs).count
    /\ blob = InitImages(ZeroImages, NoBlobs).blob
    /\ fw_dir = TRUE
    /\ secure_boot_passed = FALSE
    /\ boot_hist = <<>>
    /\ verify_ret = FALSE
    /\ PidMain
    /\ RestMain

NextBoot ==
    \/ secure_boot_init
    \/ secure_boot_verify
    \/ \E i \in BootIndexInputs : secure_boot_inject_tamper(i)
    \/ \E i \in BootIndexInputs : secure_boot_restore(i)

SpecBoot == InitBoot /\ [][NextBoot]_vars

(***************************************************************************)
(* SpecPid: one controller, any tuning, any calls                          *)
(***************************************************************************)
InitPid ==
    /\ SelInit
    /\ BootZero
    /\ \E t \in Tunings : pid = pid_init(t[1], t[2], t[3], t[4])
    /\ pid_ghost = PidGhostInit
    /\ RestMain

NextPid ==
    \/ PidCompute
    \/ PidReset
    \/ PidSetOutputLimits

SpecPid == InitPid /\ [][NextPid]_vars

\* Every product and quotient pid_compute formed so far was exact.
PidExact == pid_ghost.exact

(***************************************************************************)
(* SpecSave: the supervisor's loop of tick and bmc_state_save, with a      *)
(* reader of the snapshot file                                             *)
(***************************************************************************)
InitSave ==
    /\ MainBooted(TRUE)
    /\ PidMain
    /\ RestMain

NextSave ==
    \/ SaveTick
    \/ SaveLock
    \/ SaveSerialize
    \/ SaveOpen
    \/ SaveWrite
    \/ SaveRename
    \/ SaveUnlock
    \/ ReadSnapshot

SpecSave == InitSave /\ [][NextSave]_vars

(***************************************************************************)
(* SpecConc: the supervisor and the listener thread from phase 3 of main   *)
(* to the end of the process                                               *)
(***************************************************************************)
InitConc ==
    /\ MainBooted(FALSE)
    /\ PidMain
    /\ RestMain

NextConc ==
    \/ StartListener
    \/ SupAppendSlot
    \/ SupAppendFill
    \/ SupAppendBump
    \/ SupLoop
    \/ SupLock
    \/ SupPoll
    \/ SupPid
    \/ SupDuty
    \/ SupUnlock
    \/ SupSave
    \/ SupSelSaveRead
    \/ SupSelSave
    \/ SupStop
    \/ SupCleanup
    \/ SupFinal
    \/ Signal
    \/ LisLoop
    \/ LisAccept
    \/ LisReadNothing
    \/ LisWrite
    \/ LisAcceptFail
    \/ LisGetSensorReading
    \/ LisGetSelEntry
    \/ LisSetDutyLock
    \/ LisSetDutyWrite
    \/ LisAppendSlot
    \/ LisAppendFill
    \/ LisAppendBump

SpecConc == InitConc /\ [][NextConc]_vars

(***************************************************************************)
(* SpecIpmi: ipmi_handle_command, sensor_poll and sel_add_entry called by  *)
(* one thread on the state bmc_state_init, sel_init and sensor_init build. *)
(* SpecIpmiFull: ipmi_handle_command and sel_add_entry called by one       *)
(* thread on a log that MAX_SEL_ENTRIES earlier calls have filled          *)
(***************************************************************************)
MaxCommands == 1

MaxPolls == 1

MaxTexts == 1

\* The severity and the length of the texts a caller logs: short, of the
\* 200 bytes handle_get_sel_entry copies at most, and longer.
TextInputs ==
    {<<SEL_SEVERITY_INFO, 200>>, <<SEL_SEVERITY_WARNING, 10>>, <<SEL_SEVERITY_CRITICAL, 201>>}

\* The log after n calls sel_add_entry(state, SEL_SEVERITY_INFO, "Test",
\* <a text of 10 bytes>) on the log sel_init leaves, n <= MAX_SEL_ENTRIES:
\* entries 0..n-1 hold the ids 1..n.
FilledLog(n) ==
    [sel |-> [k \in 1..n |-> [id |-> k, severity |-> SEL_SEVERITY_INFO,
                              source |-> "Test", message |-> <<"text", 10>>]],
     sel_count |-> n, sel_next_id |-> n + 1,
     sel_file |-> NoFile, appended |-> [k \in 1..n |-> k]]

\* Requests with every known and some unknown (netfn, cmd) pairs, with
\* data absent, short, in range and out of range; data_len is Len(data).
IpmiRequests ==
    { [netfn |-> IPMI_NETFN_APP, cmd |-> IPMI_CMD_GET_DEVICE_ID, data |-> <<>>],
      [netfn |-> IPMI_NETFN_APP, cmd |-> 153, data |-> <<>>],
      [netfn |-> IPMI_NETFN_APP, cmd |-> IPMI_CMD_SET_FAN_DUTY, data |-> <<50>>],
      [netfn |-> IPMI_NETFN_SENSOR, cmd |-> IPMI_CMD_GET_SEL_ENTRY, data |-> <<0, 1>>],
      [netfn |-> IPMI_NETFN_STORAGE, cmd |-> IPMI_CMD_GET_SENSOR_READING, data |-> <<0>>],
      [netfn |-> 7, cmd |-> IPMI_CMD_GET_DEVICE_ID, data |-> <<1, 2, 3>>],
      [netfn |-> 0, cmd |-> 0, data |-> <<>>] }
    \cup { [netfn |-> IPMI_NETFN_SENSOR, cmd |-> IPMI_CMD_GET_SENSOR_READING, data |-> d] :
              d \in {<<>>, <<0>>, <<3>>, <<5, 9>>, <<7>>, <<8>>, <<255>>} }
    \cup { [netfn |-> IPMI_NETFN_SENSOR, cmd |-> IPMI_CMD_SET_FAN_DUTY, data |-> d] :
              d \in {<<>>, <<0>>, <<100, 7>>, <<101>>, <<255>>} }
    \cup { [netfn |-> IPMI_NETFN_STORAGE, cmd |-> IPMI_CMD_GET_SEL_ENTRY, data |-> d] :
              d \in {<<>>, <<1>>, <<0, 0>>, <<0, 1>>, <<0, 2>>, <<1, 0>>, <<1, 1>>,
                     <<1, 2>>, <<255, 255>>} }

\* Samples for one sensor_poll: nominal; the CPU 0.37 C warmer; V12_Main
\* 0.61 V over its nominal value (noise_stddev 0.08).
IpmiDraws ==
    { NominalDraws,
      [NominalDraws EXCEPT ![1] = sensors[0].value + 37],
      [NominalDraws EXCEPT ![6] = 61] }

\* Mutant: a sensor reading that is served is recorded in the SEL.
ipmi_handle_command_LogsReads(req) ==
    LET d == dispatch(req)
    IN  IF d.next = "gsr"
        THEN { [resp |-> pack_reading(sensors[req.data[1]], raw),
                duty |-> fan_duty_percent,
                log |-> sel_add_entry(Log, SEL_SEVERITY_INFO, "IPMI",
                            <<"Sensor read", req.data[1]>>)] :
               raw \in RawOutcomes(sensors[req.data[1]].value) }
        ELSE IF d.next = "sfd_lock"
        THEN { [resp |-> Resp(IPMI_CC_OK),
                duty |-> req.data[1] * FP,
                log |-> sel_add_entry(Log, SEL_SEVERITY_INFO, "IPMI",
                            <<"Fan duty manually set to", req.data[1]>>)] }
        ELSE IF d.next = "gse"
        THEN { [resp |-> sel_entry_resp(Log, req.data[1] * 256 + req.data[2]),
                duty |-> fan_duty_percent, log |-> Log] }
        ELSE { [resp |-> d.resp, duty |-> fan_duty_percent, log |-> Log] }

\* ipmi_handle_command(state, req, resp) as one uninterrupted call: the
\* responses it can give, each with the fan duty and the log it leaves.
ipmi_handle_command(req) ==
    LET d == dispatch(req)
    IN  IF d.next = "gsr"
        THEN { [resp |-> pack_reading(sensors[req.data[1]], raw),
                duty |-> fan_duty_percent, log |-> Log] :
               raw \in RawOutcomes(sensors[req.data[1]].value) }
        ELSE IF d.next = "sfd_lock"
        THEN { [resp |-> Resp(IPMI_CC_OK),
                duty |-> req.data[1] * FP,
                log |-> sel_add_entry(Log, SEL_SEVERITY_INFO, "IPMI",
                            <<"Fan duty manually set to", req.data[1]>>)] }
        ELSE IF d.next = "gse"
        THEN { [resp |-> sel_entry_resp(Log, req.data[1] * 256 + req.data[2]),
                duty |-> fan_duty_percent, log |-> Log] }
        ELSE { [resp |-> d.resp, duty |-> fan_duty_percent, log |-> Log] }

\* One request handled; lis.req and lis.resp keep the request and the
\* response of the last call.
IpmiHandleCommand ==
    /\ lis.reqs < MaxCommands
    /\ \E req \in IpmiRequests :
          \E out \in ipmi_handle_command(req) :
              /\ lis' = [lis EXCEPT !.reqs = lis.reqs + 1, !.req = req,
                                    !.resp = out.resp]
              /\ fan_duty_percent' = out.duty
              /\ SetLog(out.log)
    /\ UNCHANGED <<bootVars, pidVars, sensors, sensor_count, running, lock,
                   saveVars, sup>>

\* sensor_poll(state, state->fan_duty_percent)
IpmiPoll ==
    /\ sup.ticks < MaxPolls
    /\ \E draws \in IpmiDraws :
          LET P == tick_poll(draws)
          IN  /\ sensors' = P.sensors
              /\ SetLog(P.log)
    /\ sup' = [sup EXCEPT !.ticks = sup.ticks + 1]
    /\ UNCHANGED <<bootVars, pidVars, sensor_count, fan_duty_percent, running,
                   lock, saveVars, lis>>

\* sel_add_entry with a text of the caller.
IpmiAppendText ==
    /\ sup.texts < MaxTexts
    /\ \E t \in TextInputs :
          SetLog(sel_add_entry(Log, t[1], "Test", <<"text", t[2]>>))
    /\ sup' = [sup EXCEPT !.texts = sup.texts + 1]
    /\ UNCHANGED <<bootVars, pidVars, sensorVars, running, lock, saveVars, lis>>

InitIpmi ==
    /\ SelInit
    /\ BootZero
    /\ PidMain
    /\ RestMain

NextIpmi ==
    \/ IpmiHandleCommand
    \/ IpmiPoll
    \/ IpmiAppendText

SpecIpmi == InitIpmi /\ [][NextIpmi]_vars

(***************************************************************************)
(* SpecPoll: sensor_poll(state, fan_duty) called by one thread with any    *)
(* fan duty, on the state bmc_state_init, sel_init and sensor_init build   *)
(***************************************************************************)
MaxSweeps == 2

\* The fan duties passed to sensor_poll: off, the least duty the
\* controller commands, the duty bmc_state_init sets, full speed.
DutyInputs == {0, 10 * FP, 30 * FP, 100 * FP}

\* Samples for one sensor_poll: those of IpmiDraws, and the CPU fan 50 rpm
\* over its commanded speed (noise_stddev 50).
SweepDraws == IpmiDraws \cup { [NominalDraws EXCEPT ![7] = 50 * FP] }

\* sensor_poll(state, fan_duty)
PollSweep ==
    /\ sup.ticks < MaxSweeps
    /\ \E fan_duty \in DutyInputs, draws \in SweepDraws :
          LET P == poll_loop([sensors |-> sensors, log |-> Log], fan_duty, draws, 0)
          IN  /\ sensors' = P.sensors
              /\ SetLog(P.log)
    /\ sup' = [sup EXCEPT !.ticks = sup.ticks + 1]
    /\ UNCHANGED <<bootVars, pidVars, sensor_count, fan_duty_percent, running,
                   lock, saveVars, lis>>

InitPoll ==
    /\ SelInit
    /\ BootZero
    /\ PidMain
    /\ RestMain

NextPoll == PollSweep

SpecPoll == InitPoll /\ [][NextPoll]_vars

InitIpmiFull ==
    /\ SetLogInit(FilledLog(MAX_SEL_ENTRIES))
    /\ BootZero
    /\ PidMain
    /\ RestMain

NextIpmiFull ==
    \/ IpmiHandleCommand
    \/ IpmiAppendText

SpecIpmiFull == InitIpmiFull /\ [][NextIpmiFull]_vars

\* C1: sel_add_entry hands out the ids 1, 2, 3, ... in call order, never
\* reusing or resetting one, also across ring overflow; the live entries
\* sel[0..sel_count-1] are the most recently appended ones, in insertion
\* order with strictly increasing ids.
C1_IdsSequential ==
    /\ \A n \in 1..Len(appended) : appended[n] = n
    /\ \A k \in 0..(sel_count - 2) : SelAt(sel, k).id < SelAt(sel, k + 1).id
    /\ sel_count <= Len(appended)
    /\ \A k \in 0..(sel_count - 1) :
          SelAt(sel, k).id = appended[Len(appended) - sel_count + k + 1]

\* C1 witness: the ring has overflowed and ids kept counting.
C1_Witness ==
    /\ Len(appended) > MAX_SEL_ENTRIES + 1
    /\ sel_count = MAX_SEL_ENTRIES
    /\ SelAt(sel, MAX_SEL_ENTRIES - 1).id = Len(appended)

C2_Bounded == sel_count <= MAX_SEL_ENTRIES

C2_After300 ==
    /\ Len(appended) = 300 =>
          /\ sel_count = 256
          /\ {SelAt(sel, k).id : k \in 0..(sel_count - 1)} = 45..300
          /\ sel_next_id = 301
    /\ Len(appended) = 301 => appended[301] = 301 /\ SelAt(sel, sel_count - 1).id = 301

C2_EvictOldest ==
    (sel_count = MAX_SEL_ENTRIES /\ appended' # appended) =>
        /\ \A j \in SelIndex : SelAt(sel, 0).id <= SelAt(sel, j).id
        /\ sel_count' = MAX_SEL_ENTRIES
        /\ \A k \in 0..(MAX_SEL_ENTRIES - 2) : SelAt(sel', k) = SelAt(sel, k + 1)
        /\ SelAt(sel', MAX_SEL_ENTRIES - 1).id = sel_next_id

\* C2: sel_count never exceeds 256; an append to a full ring drops exactly
\* the entry with the smallest id and keeps the others in order; after 300
\* appends to an empty log the ring holds ids 45..300 and the next append
\* is given id 301.
C2_RingOverflow == []C2_Bounded /\ []C2_After300 /\ [][C2_EvictOldest]_vars

\* C2 witness: 301 appends made, the ring is full and starts at id 46.
C2_Witness ==
    /\ Len(appended) = 301
    /\ sel_count = MAX_SEL_ENTRIES
    /\ SelAt(sel, 0).id = 46
    /\ SelAt(sel, MAX_SEL_ENTRIES - 1).id = 301

(***************************************************************************)
(* Secure boot claims (SpecBoot)                                           *)
(***************************************************************************)
RECURSIVE SinceInitOf(_)
\* The calls made since the most recent secure_boot_init.
SinceInitOf(h) ==
    IF h = <<>> THEN <<>>
    ELSE IF h[Len(h)] = <<"init">> THEN <<>>
    ELSE Append(SinceInitOf(SubSeq(h, 1, Len(h) - 1)), h[Len(h)])

SinceInit == SinceInitOf(boot_hist)

LastBootOp == IF boot_hist = <<>> THEN <<"init">> ELSE boot_hist[Len(boot_hist)]

LiveImages == 0..(fw_image_count - 1)

Failing(i) == fw_images[i].verified /\ ~fw_images[i].passed

\* The image at which the verify call that just returned false stopped.
FirstFailing == CHOOSE i \in LiveImages : Failing(i) /\ \A j \in 0..(i - 1) : ~Failing(j)

\* C3: when a secure_boot_verify call has just ended with image i failing,
\* every image j > i has verified = false, whatever calls came before.
C3_DownstreamUnverified ==
    (LastBootOp = <<"verify">> /\ ~verify_ret) =>
        \A j \in LiveImages : j > FirstFailing => ~fw_images[j].verified

FailTexts ==
    {"FAIL: Cannot read image", "FAIL: Image hash mismatch - possible tampering!"}

\* The SEL holds a Critical entry whose message names image i.
CriticalNaming(i) ==
    \E k \in 0..(sel_count - 1) :
        /\ SelAt(sel, k).severity = SEL_SEVERITY_CRITICAL
        /\ SelAt(sel, k).message[1] \in FailTexts
        /\ SelAt(sel, k).message[2] = fw_configs[i + 1]

\* C4: for every image index i, after init, tamper(i), verify: the images
\* before i passed, image i is verified and failed, verify returned false,
\* secure_boot_passed is false and the SEL has a Critical entry naming i.
C4_TamperDetected ==
    \A i \in LiveImages :
        SinceInit = << <<"tamper", i>>, <<"verify">> >> =>
            /\ \A j \in 0..(i - 1) : fw_images[j].passed
            /\ fw_images[i].verified
            /\ ~fw_images[i].passed
            /\ ~verify_ret
            /\ ~secure_boot_passed
            /\ CriticalNaming(i)

\* C4 witness: the last image was tampered and the verify after it ran
\* through the three intact images before stopping there.
C4_Witness ==
    /\ SinceInit = << <<"tamper", 3>>, <<"verify">> >>
    /\ fw_images[2].verified
    /\ fw_images[2].passed
    /\ fw_images[3].verified

\* C5: a secure_boot_verify directly after another one (no tamper, restore
\* or init between them) returns the same value and leaves every image
\* record and secure_boot_passed as the first call left them.
C5_VerifyIdempotent ==
    [][(LastBootOp = <<"verify">> /\ boot_hist' = Append(boot_hist, <<"verify">>)) =>
          /\ verify_ret' = verify_ret
          /\ fw_images' = fw_images
          /\ secure_boot_passed' = secure_boot_passed]_vars

\* C5 witness: two verify calls in a row on a tampered chain.
C5_Witness ==
    /\ boot_hist = << <<"tamper", 1>>, <<"verify">>, <<"verify">> >>
    /\ ~verify_ret
    /\ Failing(1)

(***************************************************************************)
(* PID claims (SpecPid)                                                    *)
(***************************************************************************)
Abs(x) == IF x < 0 THEN 0 - x ELSE x

\* C9: after every pid_compute, output_min <= pid.output <= output_max and
\* the value returned is pid.output, for every temperature, dt and earlier
\* controller state, also with the limits set to [20, 80].
C9_OutputClamped ==
    pid_ghost.last = "compute" =>
        /\ pid.output_min <= pid.output
        /\ pid.output <= pid.output_max
        /\ pid_ghost.ret = pid.output

\* C9 witness: with limits [20, 80] a compute whose unclamped output was
\* above 80 returned exactly 80.
C9_Witness ==
    /\ pid_ghost.last = "compute"
    /\ pid.output_min = 20 * FP
    /\ pid.output_max = 80 * FP
    /\ pid_ghost.raw > 80 * FP
    /\ pid.output = 80 * FP

ComputeAtSetpointAfterReset ==
    /\ pid_ghost.last = "compute"
    /\ pid_ghost.before \in {"init", "reset"}
    /\ pid_ghost.temp = pid.setpoint

\* The base duty of 40 clamped into the controller's output limits.
BaseDuty ==
    IF 40 * FP < pid.output_min THEN pid.output_min
    ELSE IF 40 * FP > pid.output_max THEN pid.output_max ELSE 40 * FP

\* C11 as stated: after pid_reset integral and prev_error are 0, and a
\* pid_compute at the setpoint directly after pid_init or pid_reset
\* returns 40.0 for every dt and every earlier controller state.
C11_ResetReturns40 ==
    /\ pid_ghost.last = "reset" => pid.integral = 0 /\ pid.prev_error = 0
    /\ ComputeAtSetpointAfterReset => pid_ghost.ret = 40 * FP

\* C11 amended: after pid_reset integral and prev_error are 0, and a
\* pid_compute at the setpoint directly after pid_init or pid_reset
\* returns 40.0 clamped into [output_min, output_max]: exactly 40.0 when
\* output_min <= 40 <= output_max, as it is directly after pid_init.
C11_ResetReturnsBase ==
    /\ pid_ghost.last = "reset" => pid.integral = 0 /\ pid.prev_error = 0
    /\ ComputeAtSetpointAfterReset => pid_ghost.ret = BaseDuty
    /\ (ComputeAtSetpointAfterReset /\ pid_ghost.before = "init") =>
          pid_ghost.ret = 40 * FP

\* C11 witness: a reset that cleared accumulated state was followed by a
\* compute at the setpoint, which returned 40.
C11_Witness ==
    /\ ComputeAtSetpointAfterReset
    /\ pid_ghost.before = "reset"
    /\ pid_ghost.wiped
    /\ pid_ghost.ret = 40 * FP

\* The last call was the single pid_compute of a freshly initialised
\* controller.
FreshCompute == pid_ghost.last = "compute" /\ pid_ghost.before = "init"

\* C12 as stated: on a fresh controller with non-negative gains a compute
\* above the setpoint returns more than 40 (or output_max), one below the
\* setpoint less than 40 (or output_min).
C12_ErrorMovesDuty ==
    FreshCompute =>
        /\ pid_ghost.temp > pid.setpoint =>
              pid_ghost.ret > 40 * FP \/ pid_ghost.ret = pid.output_max
        /\ pid_ghost.temp < pid.setpoint =>
              pid_ghost.ret < 40 * FP \/ pid_ghost.ret = pid.output_min

\* C12 amended: on a fresh controller with non-negative gains a compute
\* above the setpoint returns at least 40 and one below at most 40; when
\* at least one gain is positive the output is strictly above 40 (or
\* output_max), respectively strictly below 40 (or output_min).
C12_ErrorMovesDutyWithGain ==
    FreshCompute =>
        /\ pid_ghost.temp > pid.setpoint =>
              /\ pid_ghost.ret >= 40 * FP
              /\ (pid.kp > 0 \/ pid.ki > 0 \/ pid.kd > 0) =>
                    pid_ghost.ret > 40 * FP \/ pid_ghost.ret = pid.output_max
        /\ pid_ghost.temp < pid.setpoint =>
              /\ pid_ghost.ret <= 40 * FP
              /\ (pid.kp > 0 \/ pid.ki > 0 \/ pid.kd > 0) =>
                    pid_ghost.ret < 40 * FP \/ pid_ghost.ret = pid.output_min

\* C12 witness: a fresh controller with a positive gain, 10 C above the
\* setpoint, returned more than 40 and less than output_max.
C12_Witness ==
    /\ FreshCompute
    /\ pid.kp > 0
    /\ pid_ghost.temp = pid.setpoint + 10 * FP
    /\ pid_ghost.ret > 40 * FP
    /\ pid_ghost.ret < pid.output_max

\* C13: pid_set_output_limits(min, max) with min >= max changes nothing;
\* with min < max it stores the bounds and clamps the current output into
\* them, leaving the rest; and output_min < output_max in every state.
C13_LimitsValidated ==
    /\ [][pid_ghost'.last = "limits" =>
            IF pid_ghost'.lim[1] >= pid_ghost'.lim[2]
            THEN pid' = pid
            ELSE pid' = [pid EXCEPT
                    !.output_min = pid_ghost'.lim[1],
                    !.output_max = pid_ghost'.lim[2],
                    !.output = IF pid.output < pid_ghost'.lim[1]
                               THEN pid_ghost'.lim[1]
                               ELSE IF pid.output > pid_ghost'.lim[2]
                               THEN pid_ghost'.lim[2] ELSE pid.output]]_vars
    /\ [](pid.output_min < pid.output_max)

\* C13 witness: limits [20, 80] were set on a controller whose last
\* compute had returned more than 80, and the output is now 80.
C13_Witness ==
    /\ pid_ghost.last = "limits"
    /\ pid_ghost.lim = <<20 * FP, 80 * FP>>
    /\ pid_ghost.ret > 80 * FP
    /\ pid.output_min = 20 * FP
    /\ pid.output_max = 80 * FP
    /\ pid.output = 80 * FP

(***************************************************************************)
(* IPMI command claims (SpecIpmi, SpecIpmiFull)                            *)
(***************************************************************************)
\* This step is one call of ipmi_handle_command; lis'.req is its request
\* and lis'.resp its response.
Handled == lis'.reqs = lis.reqs + 1

IsRequest(req, netfn, cmd) == req.netfn = netfn /\ req.cmd = cmd

\* The (netfn, cmd) pairs of the four commands: (0x06, 0x01),
\* (0x04, 0x2D), (0x04, 0x30), (0x0A, 0x43).
KnownPairs == {<<6, 1>>, <<4, 45>>, <<4, 48>>, <<10, 67>>}

AllZero(data) == \A i \in 1..Len(data) : data[i] = 0

\* C14: a request whose (netfn, cmd) is none of the four known pairs is
\* answered with completion code 0xC1, data_len 0 and all-zero data,
\* whatever its data, and the state is left as it was.
C14_UnknownCommand ==
    [][(Handled /\ <<lis'.req.netfn, lis'.req.cmd>> \notin KnownPairs) =>
          /\ lis'.resp.completion_code = 193
          /\ lis'.resp.data_len = 0
          /\ AllZero(lis'.resp.data)
          /\ UNCHANGED <<selVars, bootVars, pidVars, sensorVars, running,
                         lock, saveVars, sup>>]_vars

\* C14 witness: the request (0x06, 0x99) was answered with 0xC1, and so
\* was a request of an unknown netfn that carried three data bytes.
C14_Witness ==
    /\ lis.reqs >= 1
    /\ \/ IsRequest(lis.req, 6, 153)
       \/ IsRequest(lis.req, 7, 1) /\ Len(lis.req.data) = 3
    /\ lis.resp.completion_code = 193
    /\ lis.resp.data_len = 0

\* C15: Set Fan Duty with data_len >= 1 and data[0] in 0..100 answers 0x00
\* with data_len 0, sets fan_duty_percent to data[0] and appends exactly
\* one entry, Info, "Fan duty manually set to d%", to the SEL; with
\* data[0] > 100 or data_len = 0 it answers 0xC9 and changes neither
\* fan_duty_percent nor the SEL.
C15_SetFanDuty ==
    [][(Handled /\ IsRequest(lis'.req, 4, 48)) =>
          IF Len(lis'.req.data) >= 1 /\ lis'.req.data[1] \in 0..100
          THEN /\ lis'.resp.completion_code = 0
               /\ lis'.resp.data_len = 0
               /\ fan_duty_percent' = lis'.req.data[1] * FP
               /\ LiveEntries(Log)' =
                     Append(IF sel_count = MAX_SEL_ENTRIES
                            THEN Tail(LiveEntries(Log)) ELSE LiveEntries(Log),
                            [id |-> sel_next_id, severity |-> SEL_SEVERITY_INFO,
                             source |-> "IPMI",
                             message |-> <<"Fan duty manually set to",
                                           lis'.req.data[1]>>])
               /\ sel_next_id' = sel_next_id + 1
          ELSE /\ lis'.resp.completion_code = 201
               /\ UNCHANGED <<fan_duty_percent, selVars>>]_vars

\* C15 witness: Set Fan Duty 100 was answered 0x00, the duty is 100 and
\* the newest SEL entry is the Info entry of that request.
C15_Witness ==
    /\ lis.reqs >= 1
    /\ IsRequest(lis.req, 4, 48)
    /\ lis.req.data = <<100, 7>>
    /\ lis.resp.completion_code = 0
    /\ fan_duty_percent = 100 * FP
    /\ sel_count >= 1
    /\ SelAt(sel, sel_count - 1).severity = SEL_SEVERITY_INFO
    /\ SelAt(sel, sel_count - 1).message = <<"Fan duty manually set to", 100>>

\* C16: Get Sensor Reading answers 0xC9 with data_len 0 when data_len = 0
\* or data[0] >= sensor_count, and 0x00 with data_len 4 for every index
\* below sensor_count.
C16_SensorIndexChecked ==
    [][(Handled /\ IsRequest(lis'.req, 4, 45)) =>
          IF Len(lis'.req.data) = 0 \/ lis'.req.data[1] >= sensor_count
          THEN lis'.resp.completion_code = 201 /\ lis'.resp.data_len = 0
          ELSE lis'.resp.completion_code = 0 /\ lis'.resp.data_len = 4]_vars

\* C16 witness: the reading of the last sensor, index sensor_count - 1, was
\* answered 0x00 with four bytes.
C16_Witness ==
    /\ lis.reqs >= 1
    /\ IsRequest(lis.req, 4, 45)
    /\ lis.req.data = <<sensor_count - 1>>
    /\ lis.resp.completion_code = 0
    /\ lis.resp.data_len = 4

\* round(value * 256) to the nearest integer, for a value >= 0 in 1/FP.
Round256(value) == (2 * value * 256 + FP) \div (2 * FP)

\* C17: for a valid sensor index the response's bytes 0..1 are the
\* big-endian signed 16-bit integer equal to round(value * 256), byte 2 is
\* the sensor's status and byte 3 its type.
C17_ReadingRounded ==
    [][(Handled /\ IsRequest(lis'.req, 4, 45)
               /\ lis'.resp.completion_code = 0) =>
          LET s == sensors[lis'.req.data[1]]
          IN  /\ Round256(s.value) <= 32767
              /\ lis'.resp.data[1] * 256 + lis'.resp.data[2] = Round256(s.value)
              /\ lis'.resp.data[3] = s.status
              /\ lis'.resp.data[4] = s.type]_vars

\* What the code does give for a valid index: when value * 256 fits a
\* signed 16-bit integer, bytes 0..1 are that product with its fraction
\* cut off; bytes 2 and 3 are the status and the type in every case.
ReadingTruncated ==
    [][(Handled /\ IsRequest(lis'.req, 4, 45)
               /\ lis'.resp.completion_code = 0) =>
          LET s == sensors[lis'.req.data[1]]
          IN  /\ (s.value * 256) \div FP <= 32767 =>
                    lis'.resp.data[1] * 256 + lis'.resp.data[2] =
                        (s.value * 256) \div FP
              /\ lis'.resp.data[3] = s.status
              /\ lis'.resp.data[4] = s.type]_vars

\* The bytes handle_get_sel_entry copies from a message.
Copied(message) == IF strlen(message) < 200 THEN strlen(message) ELSE 200

\* C18: Get SEL Entry answers 0x00 exactly when an entry with the 16-bit
\* big-endian id asked for is live in the ring; bytes 0..1 are then that
\* id, byte 2 the severity, the bytes after them the first min(200,
\* length) bytes of the message, and data_len is 3 plus that number.  An
\* id never assigned, an id evicted by ring overflow and a request with
\* data_len < 2 are answered 0xC9 with data_len 0.
C18_GetSelEntry ==
    [][(Handled /\ IsRequest(lis'.req, 10, 67)) =>
          LET d == lis'.req.data
              live == IF Len(d) < 2 THEN {}
                      ELSE {k \in 0..(sel_count - 1) :
                              SelAt(sel, k).id = d[1] * 256 + d[2]}
          IN  IF live = {}
              THEN lis'.resp.completion_code = 201 /\ lis'.resp.data_len = 0
              ELSE \E k \in live :
                      /\ lis'.resp.completion_code = 0
                      /\ lis'.resp.data[1] = d[1]
                      /\ lis'.resp.data[2] = d[2]
                      /\ lis'.resp.data[3] = SelAt(sel, k).severity
                      /\ lis'.resp.data[4] =
                            [text |-> SelAt(sel, k).message,
                             len |-> Copied(SelAt(sel, k).message)]
                      /\ lis'.resp.data_len = 3 + Copied(SelAt(sel, k).message)]_vars

\* C18 witness: id 1 was assigned and has been evicted from the full ring,
\* and the request for it was answered 0xC9.
C18_Witness ==
    /\ lis.reqs >= 1
    /\ IsRequest(lis.req, 10, 67)
    /\ lis.req.data = <<0, 1>>
    /\ lis.resp.completion_code = 201
    /\ Len(appended) > MAX_SEL_ENTRIES
    /\ appended[1] = 1
    /\ sel_count = MAX_SEL_ENTRIES
    /\ SelAt(sel, 0).id = 2

(***************************************************************************)
(* Fan duty and sensor status claims                                       *)
(***************************************************************************)
\* C19: in every state, under every interleaving of supervisor ticks and
\* Set Fan Duty requests, 0 <= fan_duty_percent <= 100.
C19_FanDutyInRange == 0 <= fan_duty_percent /\ fan_duty_percent <= 100 * FP

\* C19 witness: the supervisor has made a tick and the listener has
\* answered a Set Fan Duty of 101 with 0xC9.
C19_Witness ==
    /\ sup.ticks >= 1
    /\ IsRequest(lis.req, 4, 48)
    /\ lis.req.data = <<101>>
    /\ lis.pc = "loop"
    /\ lis.resp.completion_code = 201

\* The classification of a sensor's value: a fan is Critical below
\* min_valid or above max_critical, else Warning above max_warning, else
\* Ok; any other sensor is Critical from max_critical on, else Warning
\* from max_warning on or below min_valid, else Ok.
Classified(s) ==
    IF s.type = SENSOR_TYPE_FAN_RPM
    THEN IF s.value < s.min_valid \/ s.value > s.max_critical THEN 2
         ELSE IF s.value > s.max_warning THEN 1 ELSE 0
    ELSE IF s.value >= s.max_critical THEN 2
         ELSE IF s.value >= s.max_warning \/ s.value < s.min_valid THEN 1 ELSE 0

\* C20: after every sensor_poll each sensor's status is the classification
\* of its current value.
C20_StatusClassified ==
    sup.ticks >= 1 =>
        \A i \in 0..(sensor_count - 1) : sensors[i].status = Classified(sensors[i])

\* C20 witness: after a poll at fan duty 0 both fans stand still and are
\* Critical, and the temperatures and voltages are Ok.
C20_Witness ==
    /\ sup.ticks >= 1
    /\ sensors[6].value = 0 /\ sensors[6].status = SENSOR_STATUS_CRITICAL
    /\ sensors[7].value = 0 /\ sensors[7].status = SENSOR_STATUS_CRITICAL
    /\ \A i \in 0..5 : sensors[i].status = SENSOR_STATUS_OK

RECURSIVE TransitionEntries(_, _, _, _)
\* The entries a poll owes the SEL, in sensor order from sensor i on: one
\* per sensor whose status changed to Warning or Critical, with the ids
\* from id on.
TransitionEntries(old, new, i, id) ==
    IF i >= sensor_count THEN <<>>
    ELSE IF new[i].status # old[i].status /\ new[i].status # SENSOR_STATUS_OK
    THEN << [id |-> id,
             severity |-> IF new[i].status = SENSOR_STATUS_CRITICAL
                          THEN SEL_SEVERITY_CRITICAL ELSE SEL_SEVERITY_WARNING,
             source |-> "Sensor", name |-> new[i].name] >>
         \o TransitionEntries(old, new, i + 1, id + 1)
    ELSE TransitionEntries(old, new, i + 1, id)

\* The id, severity, source and sensor name of a "Sensor" entry.
EntryHead(e) ==
    [id |-> e.id, severity |-> e.severity, source |-> e.source,
     name |-> IF e.source = "Sensor" THEN e.message[2] ELSE ""]

\* C21: a sensor_poll appends exactly one entry with source "Sensor" for
\* each sensor whose status after the poll differs from its status before
\* and is not Ok, Critical for Critical and Warning otherwise, and no
\* entry for a sensor whose status stays or becomes Ok.
C21_TransitionsLogged ==
    [][sup'.ticks = sup.ticks + 1 =>
          LET owed == TransitionEntries(sensors, sensors', 0, sel_next_id)
          IN  /\ sel_count' = sel_count + Len(owed)
              /\ \A k \in 0..(sel_count - 1) : SelAt(sel', k) = SelAt(sel, k)
              /\ \A k \in 1..Len(owed) :
                    EntryHead(SelAt(sel', sel_count + k - 1)) = owed[k]]_vars

\* C21 witness: the CPU fan went to Warning in one poll and from Warning
\* to Critical in the next, where the system fan went from Ok to
\* Critical: three entries, Warning, Critical, Critical.
C21_Witness ==
    /\ sup.ticks = 2
    /\ sel_count = 3
    /\ EntryHead(SelAt(sel, 0)) = [id |-> 1, severity |-> SEL_SEVERITY_WARNING,
                                   source |-> "Sensor", name |-> "CPU_Fan"]
    /\ EntryHead(SelAt(sel, 1)) = [id |-> 2, severity |-> SEL_SEVERITY_CRITICAL,
                                   source |-> "Sensor", name |-> "CPU_Fan"]
    /\ EntryHead(SelAt(sel, 2)) = [id |-> 3, severity |-> SEL_SEVERITY_CRITICAL,
                                   source |-> "Sensor", name |-> "SYS_Fan"]

(***************************************************************************)
(* Snapshot claims (SpecSave)                                              *)
(***************************************************************************)
\* A file content a reader may see: no file, or a whole document.
IsWhole(f) == ~f.exists \/ Len(f.chunks) = Len(state_to_json)

\* C8: a reader of the snapshot file sees, during a bmc_state_save, the
\* whole document of the previous save or the whole document of this one,
\* never a part; and a save that cannot open the temporary file returns
\* failure with the lock released and the target file unchanged.
C8_AtomicSnapshot ==
    /\ IsWhole(state_file)
    /\ IsWhole(observed)
    /\ save.pc \in {"locked", "open", "write", "rename", "unlock"} =>
          \/ state_file = save.prev
          \/ state_file = [exists |-> TRUE, chunks |-> save.doc]
    /\ (save.pc = "tick" /\ save.ret = 0 - 1) =>
          lock = "free" /\ state_file = save.prev

\* The snapshot property on the runs where every write succeeds.
SnapshotWholeIfWritten == save.short \/ C8_AtomicSnapshot

(***************************************************************************)
(* Concurrency claims (SpecConc)                                           *)
(***************************************************************************)
\* The fields of bmc_state_t that the threads write after start-up (the
\* running flag, which the signal handler clears, is left out).
GlobalFields ==
    <<sel, sel_count, sel_next_id, sensors, sensor_count, fan_duty_percent,
      pid, fw_images, fw_image_count, secure_boot_passed>>

\* The thread that takes the step.
Writer == IF lis' # lis THEN "lis" ELSE "sup"

\* Neither thread is inside a sel_add_entry call.
NoAppendInProgress ==
    /\ sup.pc \notin {"add_fill", "add_bump"}
    /\ lis.pc \notin {"add_fill", "add_bump"}

\* The live entries carry distinct ids, the ring holds at most
\* MAX_SEL_ENTRIES, and between appends the live entries are the last
\* sel_count ids handed out, in order.
SelConsistent ==
    /\ sel_count <= MAX_SEL_ENTRIES
    /\ \A i, j \in 0..(sel_count - 1) :
          i # j => SelAt(sel, i).id # SelAt(sel, j).id
    /\ NoAppendInProgress =>
          /\ sel_count = (IF Len(appended) < MAX_SEL_ENTRIES THEN Len(appended)
                          ELSE MAX_SEL_ENTRIES)
          /\ \A k \in 1..sel_count :
                SelAt(sel, k - 1).id = appended[Len(appended) - sel_count + k]

\* C6: while the listener thread may be running, every step that writes a
\* field of the shared state is taken by the thread holding the lock, and
\* so the SEL never shows duplicate ids, a lost or overwritten entry, or
\* more than MAX_SEL_ENTRIES entries.
C6_LockedSelAppends ==
    /\ [][(GlobalFields' # GlobalFields /\ lis.pc \notin {"off", "exit"})
            => lock = Writer]_vars
    /\ []SelConsistent

\* The supervisor is between the first and the last mutation of a tick.
MidTick == sup.pc \in {"pid", "duty"}

\* C7: the supervisor holds the lock from before the poll to after the
\* write of fan_duty_percent, and no IPMI handler step that reads or writes
\* the state is taken between the first and the last mutation of a tick.
C7_TickIsolated ==
    /\ [](sup.pc \in {"poll", "pid", "duty", "unlock"} => lock = "sup")
    /\ [][~(MidTick /\ lis' # lis
             /\ lis.pc \in {"gsr", "gse", "sfd_write", "add_slot", "add_fill",
                            "add_bump"})]_vars

(***************************************************************************)
(* Start-up claims (SpecSave, SpecConc)                                    *)
(***************************************************************************)
\* The position in the log of the entry whose text is exactly message, or
\* -1 when no entry has it.
PositionOf(message) ==
    IF \E k \in 0..(sel_count - 1) : SelAt(sel, k).message = message
    THEN CHOOSE k \in 0..(sel_count - 1) :
            /\ SelAt(sel, k).message = message
            /\ \A j \in 0..(k - 1) : SelAt(sel, j).message # message
    ELSE -1

\* The first iteration of the loop of main has run its locked section.
FirstTickDone == save.pc # "tick" \/ save.n >= 1

\* C22: on a cold start with untampered images, once the first tick has
\* completed there are 8 sensors, the setpoint is 65, secure_boot_passed is
\* true, and the log holds 'BMC daemon starting up' with id 1, then 'Secure
\* boot verification passed', then 'BMC daemon fully operational', their
\* ids increasing in that order.
C22_ColdStart ==
    FirstTickDone =>
       LET a == PositionOf(<<"BMC daemon starting up">>)
           b == PositionOf(<<"Secure boot verification passed">>)
           c == PositionOf(<<"BMC daemon fully operational">>)
       IN  /\ sensor_count = 8
           /\ pid.setpoint = 65 * FP
           /\ secure_boot_passed = TRUE
           /\ a >= 0 /\ b >= 0 /\ c >= 0
           /\ SelAt(sel, a).id = 1
           /\ SelAt(sel, a).id < SelAt(sel, b).id
           /\ SelAt(sel, b).id < SelAt(sel, c).id

C22_Witness ==
    /\ save.n = 1
    /\ save.pc = "tick"
    /\ state_file.exists
    /\ PositionOf(<<"BMC daemon fully operational">>) >
          PositionOf(<<"Secure boot verification passed">>)
    /\ PositionOf(<<"Secure boot verification passed">>) > 0


\* The image files secure_boot_verify finds at start-up when the chain is
\* broken: one image was modified after secure_boot_init hashed it, or one
\* image file cannot be opened.
DegradedBlobs ==
    LET good == InitImages(ZeroImages, NoBlobs).blob
    IN  { [good EXCEPT ![1] = TamperBlob(@)], [good EXCEPT ![0] = Absent] }

\* main, lines 88-136, when secure_boot_verify returns false: the
\* secure-boot state and the log as phase 3 begins, with the entry of lines
\* 129-130.
MainDegraded ==
    /\ blob \in DegradedBlobs
    /\ fw_image_count = InitImages(ZeroImages, NoBlobs).count
    /\ fw_dir = TRUE
    /\ boot_hist = <<>>
    /\ LET L0 == sel_add_entry(ZeroLog, SEL_SEVERITY_INFO, "System",
                               <<"BMC daemon starting up">>)
           V == verify_loop([images |-> InitImages(ZeroImages, NoBlobs).images,
                             log |-> init_log(L0, fw_image_count),
                             all_passed |-> TRUE], 0)
       IN  /\ fw_images = V.images
           /\ secure_boot_passed = V.all_passed
           /\ verify_ret = V.all_passed
           /\ SetLogInit(
                IF V.all_passed
                THEN sel_add_entry(V.log, SEL_SEVERITY_INFO, "System",
                                   <<"Secure boot verification passed">>)
                ELSE sel_add_entry(V.log, SEL_SEVERITY_CRITICAL, "System",
                                   <<"Secure boot verification FAILED - continuing in degraded mode">>))

(***************************************************************************)
(* SpecDegraded: the supervisor and the listener thread from phase 3 of    *)
(* main on, after a start-up whose verification failed                     *)
(***************************************************************************)
InitDegraded ==
    /\ MainDegraded
    /\ PidMain
    /\ RestMain

NextDegraded == NextConc

SpecDegraded == InitDegraded /\ [][NextDegraded]_vars

\* This step is one of main's own (not the end of the process in the
\* listener's write).
SupStep == sup' # sup /\ sup'.pc # "killed"

\* main is past its loop: in the shutdown or returned.
SupLeaving ==
    sup.pc \in {"stop", "cleanup", "final", "done"} \/ sup.site = "down"

\* C23: after a start-up whose secure_boot_verify failed the log holds the
\* Critical entry of main, secure_boot_passed is false and stays false (no
\* step of the supervisor or of the listener runs verify again), the
\* supervisor goes from the start of the listener, started or not, to its
\* loop, and it leaves the loop only when running is false.
C23_DegradedMode ==
    /\ [](/\ secure_boot_passed = FALSE
          /\ \E k \in 0..(sel_count - 1) :
                /\ SelAt(sel, k).severity = SEL_SEVERITY_CRITICAL
                /\ SelAt(sel, k).source = "System"
                /\ SelAt(sel, k).message =
                      <<"Secure boot verification FAILED - continuing in degraded mode">>
          /\ (SupLeaving => ~running))
    /\ [][sup.pc = "start" /\ SupStep
             => sup'.pc = "add_slot" /\ sup'.site = "op"]_vars
    /\ [][sup.pc = "loop" /\ SupStep /\ running => sup'.pc = "lock"]_vars

C23_Witness ==
    /\ sup.ticks = 1
    /\ sup.pc = "loop"
    /\ running
    /\ lis.reqs = 1
    /\ secure_boot_passed = FALSE
    /\ verify_ret = FALSE
    /\ fw_images[1].verified /\ ~fw_images[1].passed


(***************************************************************************)
(* SpecTherm: test_pid_convergence, the controller of pid_init(3.0, 0.1,   *)
(* 1.5, 65.0) in closed loop with the thermal model of the test            *)
(***************************************************************************)
\* test_pid_convergence, line 128: the iterations of the loop.
Iterations == 100

\* Mutant: more fan duty heats the plant.
thermal_model_Heating(temp, output) ==
    temp + Mul(55 * FP + 15 * FP + Mul(Div(output, 100 * FP), 25 * FP) - temp,
               FP \div 10)

\* test_pid_convergence, line 131:
\* temp += (55.0 + 15.0 - (output / 100.0) * 25.0 - temp) * 0.1
thermal_model(temp, output) ==
    temp + Mul(55 * FP + 15 * FP - Mul(Div(output, 100 * FP), 25 * FP) - temp,
               FP \div 10)

\* test_pid_convergence, lines 129-131: one iteration.  pid_ghost.temp is
\* the local temp of the test, pid_ghost.ret its local output.
ThermStep ==
    /\ pid_ghost.calls < Iterations
    /\ LET r == pid_compute(pid, pid_ghost.temp, FP)
       IN  /\ pid' = r.pid
           /\ pid_ghost' = [PidGhostAfter(r, pid_ghost.calls + 1) EXCEPT
                               !.temp = thermal_model(pid_ghost.temp, r.ret)]
    /\ UNCHANGED <<selVars, bootVars, restVars>>

\* test_pid_convergence, lines 123-126: pid_init and temp = 70.0.
InitTherm ==
    /\ SelInit
    /\ BootZero
    /\ pid = pid_init(3 * FP, FP \div 10, (3 * FP) \div 2, 65 * FP)
    /\ pid_ghost = [PidGhostInit EXCEPT !.temp = 70 * FP]
    /\ RestMain

NextTherm == ThermStep

SpecTherm == InitTherm /\ [][NextTherm]_vars

\* C24: in the closed loop of test_pid_convergence every output is in
\* [10, 100], and after 100 iterations the temperature is less than 5
\* away from the setpoint 65.
C24_Converges ==
    /\ pid_ghost.calls >= 1 =>
          /\ pid_ghost.ret >= 10 * FP
          /\ pid_ghost.ret <= 100 * FP
          /\ pid.output = pid_ghost.ret
    /\ pid_ghost.calls = Iterations =>
          /\ pid_ghost.temp - 65 * FP < 5 * FP
          /\ 65 * FP - pid_ghost.temp < 5 * FP

C24_Witness ==
    /\ pid_ghost.calls = Iterations
    /\ pid_ghost.temp < 65 * FP
    /\ pid_ghost.temp > 64 * FP
    /\ pid_ghost.ret < 40 * FP


(***************************************************************************)
(* SpecBootLost: any secure-boot calls by one thread, secure_boot_cleanup  *)
(* among them, from the state main() has built when secure_boot_init       *)
(* returns                                                                 *)
(***************************************************************************)
NextBootLost ==
    \/ secure_boot_init
    \/ secure_boot_verify
    \/ secure_boot_cleanup
    \/ \E i \in BootIndexInputs : secure_boot_inject_tamper(i)
    \/ \E i \in BootIndexInputs : secure_boot_restore(i)

SpecBootLost == InitBoot /\ [][NextBootLost]_vars

\* This step is a call of secure_boot_verify.
VerifyCalled == boot_hist' = Append(boot_hist, <<"verify">>)

\* Image i is the first one the verify call now starting cannot read: its
\* file is missing and every image before it is read and passes.
FirstUnreadable(i) ==
    /\ i \in 0..(fw_image_count - 1)
    /\ blob[i] = Absent
    /\ \A m \in 0..(i - 1) :
          blob[m] # Absent /\ verify_image(fw_images[m], blob[m]).passed

\* The log positions this step appended.
Appended == sel_count..(sel_count' - 1)

\* This step appended a Critical "Cannot read" entry naming image i.
UnreadableLogged(i) ==
    \E k \in Appended :
        /\ SelAt(sel', k).severity = SEL_SEVERITY_CRITICAL
        /\ SelAt(sel', k).source = "SecureBoot"
        /\ SelAt(sel', k).message = <<"FAIL: Cannot read image", fw_configs[i + 1]>>

\* This step appended an entry naming image j.
ImageLogged(j) ==
    \E k \in Appended :
        /\ SelAt(sel', k).source = "SecureBoot"
        /\ Len(SelAt(sel', k).message) = 2
        /\ SelAt(sel', k).message[2] = fw_configs[j + 1]

\* C25: a secure_boot_verify call that cannot read image i marks it
\* verified and not passed, appends a Critical entry for it, fails, and
\* stops there: the record of every image j > i is as before the call and
\* no entry about j is appended.
C25_StopsAtUnreadable ==
    [][VerifyCalled =>
         \A i \in 0..(MAX_FW_IMAGES - 1) : FirstUnreadable(i) =>
             /\ fw_images'[i].verified
             /\ ~fw_images'[i].passed
             /\ UnreadableLogged(i)
             /\ ~secure_boot_passed'
             /\ ~verify_ret'
             /\ \A j \in (i + 1)..(fw_image_count - 1) :
                   /\ fw_images'[j] = fw_images[j]
                   /\ ~ImageLogged(j)]_vars

\* What the call does for the image it cannot read, and that it goes on to
\* the next image: every later image is verified and logged in the same
\* call until one is read and fails.
UnreadableSkipped ==
    [][VerifyCalled =>
         \A i \in 0..(MAX_FW_IMAGES - 1) : FirstUnreadable(i) =>
             /\ fw_images'[i].verified
             /\ ~fw_images'[i].passed
             /\ UnreadableLogged(i)
             /\ ~secure_boot_passed'
             /\ ~verify_ret'
             /\ i + 1 < fw_image_count =>
                   fw_images'[i + 1].verified /\ ImageLogged(i + 1)]_vars

\* A verify call found no image file and has returned: the log names the
\* last image too.
UnreadableSkippedWitness ==
    /\ Len(boot_hist) >= 2
    /\ boot_hist[Len(boot_hist)] = <<"verify">>
    /\ boot_hist[Len(boot_hist) - 1] = <<"cleanup">>
    /\ SelAt(sel, sel_count - 1).message =
          <<"FAIL: Cannot read image", fw_configs[fw_image_count]>>


(***************************************************************************)
(* Locking claims (SpecSave, SpecConc)                                     *)
(***************************************************************************)
\* This step is a file operation: it creates, truncates, extends or
\* replaces the snapshot file, its temporary file or the SEL file.
FileIo ==
    \/ state_file' # state_file
    \/ tmp_file' # tmp_file
    \/ sel_file' # sel_file

\* C26: no step that writes the snapshot file, its temporary file or the
\* SEL file is taken by a thread that holds the state lock.  Every such
\* step is the supervisor's (a handler of the listener logs at Info and
\* writes no file).
C26_NoFileIoUnderLock ==
    [][FileIo => lock # "sup"]_vars

\* What the loop of main does itself: bmc_state_save is entered, and the
\* tick's own writes begin, with the lock released.
SaveCalledUnlocked == save.pc = "call" => lock = "free"


\* The SEL file, once written, is a consistent snapshot: its count is the
\* number of entries it holds and their ids are strictly increasing.
SelFileConsistent ==
    sel_file # NoFile =>
       /\ sel_file.count = Len(sel_file.entries)
       /\ \A k \in 1..(Len(sel_file.entries) - 1) :
             sel_file.entries[k].id < sel_file.entries[k + 1].id

\* C27: the per-tick sel_save of the supervisor reads the log and writes
\* the SEL file while the supervisor holds the state lock, and every SEL
\* file written is a consistent snapshot, also when a Set Fan Duty request
\* appends to the log at the same time.
C27_SaveUnderLock ==
    /\ []SelFileConsistent
    /\ [][sup.pc \in {"sel_save", "sel_write"} /\ sup' # sup => lock = "sup"]_vars

\* bmc_state_save does serialise under the lock: the document is built
\* while the supervisor holds it.
SnapshotUnderLock == [][save'.doc # save.doc /\ save'.doc # <<>> => lock = "sup"]_vars


(***************************************************************************)
(* Persistence claim (SpecSel)                                             *)
(***************************************************************************)
\* This step is a call of sel_add_entry: an id was handed out.
AddCalled == sel_next_id' = sel_next_id + 1

\* The entry the call of this step wrote.
NewEntry == SelAt(sel', sel_count' - 1)

PollStep == sup.pc = "poll" /\ sup'.pc = "pid"

\* This step is the write of fan_duty_percent that ends a tick's mutations.
DutyStep == sup.pc = "duty" /\ sup'.pc = "unlock"

\* This step is the write of handle_set_fan_duty.
ManualStep == lis.pc = "sfd_write" /\ lis'.pc = "add_slot"

\* C29: a tick polls the sensors with the fan duty found in the state, so
\* with d after a successful Set Fan Duty(d); it then stores the PID output
\* of that tick in fan_duty_percent, whatever was there; when the tick
\* releases the lock fan_duty_percent equals pid.output, and from then on
\* only a Set Fan Duty handler or the next tick changes it.
C29_ManualDutyOverwritten ==
    /\ [][PollStep =>
            \E draws \in DrawInputs :
               sensors' = poll_loop([sensors |-> sensors, log |-> Log],
                                    fan_duty_percent, draws, 0).sensors]_vars
    /\ [][ManualStep => fan_duty_percent' = lis.req.data[1] * FP]_vars
    /\ [][DutyStep => fan_duty_percent' = pid.output /\ pid' = pid]_vars
    /\ [](sup.pc = "unlock" => fan_duty_percent = pid.output)
    /\ [][fan_duty_percent' # fan_duty_percent => DutyStep \/ ManualStep]_vars
    /\ [][pid'.output # pid.output => sup.pc = "pid" /\ lock = "sup"]_vars

\* A Set Fan Duty(50) was answered, the tick after it polled SYS_Fan at 50%
\* of its 5000 rpm, and the duty in the state is the PID output again.
C29_Witness ==
    /\ sup.ticks = 1
    /\ IsRequest(lis.req, 4, 48)
    /\ lis.req.data = <<50>>
    /\ lis.resp.completion_code = 0
    /\ lis.pc = "loop"
    /\ sensors[7].value = 2500 * FP
    /\ fan_duty_percent = pid.output
    /\ fan_duty_percent # 50 * FP


(***************************************************************************)
(* Listener claim (SpecConc)                                               *)
(***************************************************************************)
\* This step accepts a connection and reads from it.
Accepted == lis'.conns = lis.conns + 1

\* For each accepted connection one request is read; when bytes were read
\* the dispatcher runs once on them, when none were read no command is
\* handled and the connection is closed with no response.
OneRequestRead ==
    [][Accepted =>
         \/ /\ lis'.reqs = lis.reqs + 1
            /\ lis'.req \in RequestInputs
            /\ lis'.writes = lis.writes
            /\ lis'.pc \in {"write", "gsr", "gse", "sfd_lock"}
         \/ /\ lis'.reqs = lis.reqs
            /\ lis'.writes = lis.writes
            /\ lis'.pc = "loop"]_vars

\* A response is written only for a request that was read and has none
\* yet, and back at the top of its loop the listener has written exactly
\* one response for each request read.
OneResponseWritten ==
    /\ [][lis'.writes # lis.writes =>
             /\ lis'.writes = lis.writes + 1
             /\ lis.writes < lis.reqs
             /\ lis.pc = "write" /\ lis'.pc = "loop"]_vars
    /\ [](lis.pc \in {"loop", "accept", "exit"} => lis.writes = lis.reqs)

\* The listener thread leaves its loop only by the test of running.
ExitsOnlyWhenStopped ==
    [][lis'.pc = "exit" /\ lis.pc # "exit" => lis.pc = "loop" /\ ~running]_vars

\* C30: for each accepted connection the listener reads one request,
\* dispatches it once and writes exactly one response when bytes were
\* read, writes none when nothing was read, and in every case closes the
\* connection and goes back to accept: while running is true nothing ends
\* the loop.
C30_ListenerServes ==
    /\ OneRequestRead
    /\ OneResponseWritten
    /\ ExitsOnlyWhenStopped
    /\ [][lis'.pc = "killed" => ~running]_vars

\* What holds of the listener: one request per connection, one response
\* per request unless the process dies in the write of that response, and
\* no request content (a short request, an unknown command, a parameter out
\* of range) ends the loop: the loop ends by the test of running, and the
\* process dies only in a write.
ListenerServesConnected ==
    /\ OneRequestRead
    /\ OneResponseWritten
    /\ ExitsOnlyWhenStopped
    /\ [][lis'.pc = "killed" /\ lis.pc # "killed" => lis.pc = "write"]_vars

\* The listener has answered a Set Fan Duty out of range and is back at
\* accept.
ListenerServesWitness ==
    /\ lis.pc = "accept"
    /\ running
    /\ lis.req.data = <<101>>
    /\ lis.resp.completion_code = IPMI_CC_INVALID_PARAM
    /\ lis.writes = 1
    /\ lis.conns = 1



(***************************************************************************)
(* SpecListener: ipmi_start_listener, ipmi_stop_listener and the listener  *)
(* thread, driven by a caller of ipmi.h (ipmi.c, lines 195-268)            *)
(***************************************************************************)
\* Calls of ipmi_start_listener and ipmi_stop_listener the caller makes.
MaxCalls == 4

\* socket(), line 232: the lowest descriptor number that is not open (0, 1
\* and 2 are the standard streams).
lowest_fd(open) ==
    CHOOSE n \in 3..(3 + MaxCalls) :
        n \notin open /\ \A m \in 3..(n - 1) : m \in open

\* ipmi.c, lines 38-40, before any call: server_fd = -1 and no thread.
\* open is the set of open descriptors of the process, closes counts for
\* each socket that socket() created the close() calls made on it, and
\* last is the last call made.
ApiZero ==
    [pc |-> "api", server_fd |-> 0 - 1, open |-> {}, closes |-> <<>>,
     calls |-> 0, last |-> "none"]

\* ipmi_start_listener, lines 225-258: socket() fails and leaves -1 in
\* server_fd; bind or listen fails and the descriptor is closed while its
\* number stays in server_fd; or the socket listens and the thread is
\* created.  The caller starts a listener only when no listener thread is
\* running.
ipmi_start_listener ==
    /\ sup.pc = "api"
    /\ sup.calls < MaxCalls
    /\ lis.pc \in {"off", "exit"}
    /\ \/ /\ sup' = [sup EXCEPT !.server_fd = 0 - 1,
                                !.calls = sup.calls + 1, !.last = "start"]
          /\ UNCHANGED lis
       \/ /\ sup' = [sup EXCEPT !.server_fd = lowest_fd(sup.open),
                                !.closes = Append(sup.closes, 1),
                                !.calls = sup.calls + 1, !.last = "start"]
          /\ UNCHANGED lis
       \/ /\ sup' = [sup EXCEPT !.server_fd = lowest_fd(sup.open),
                                !.open = sup.open \cup {lowest_fd(sup.open)},
                                !.closes = Append(sup.closes, 0),
                                !.calls = sup.calls + 1, !.last = "start"]
          /\ lis' = [LisZero EXCEPT !.pc = "loop"]
    /\ UNCHANGED <<selVars, bootVars, pidVars, sensorVars, running, lock,
                   saveVars>>

\* ipmi_stop_listener, lines 260-268: close(server_fd) when server_fd >= 0,
\* then server_fd = -1; the thread is neither signalled nor joined.  A
\* thread that is inside accept() on the descriptor when it is closed is
\* woken with an error or stays blocked, as the system decides (on Linux
\* it stays blocked).
ipmi_stop_listener ==
    /\ sup.pc = "api"
    /\ sup.calls < MaxCalls
    /\ IF sup.server_fd >= 0
       THEN sup' = [sup EXCEPT !.server_fd = 0 - 1,
                               !.open = sup.open \ {sup.server_fd},
                               !.closes = [sup.closes EXCEPT
                                              ![Len(sup.closes)] = @ + 1],
                               !.calls = sup.calls + 1, !.last = "stop"]
       ELSE sup' = [sup EXCEPT !.calls = sup.calls + 1, !.last = "stop"]
    /\ \/ UNCHANGED lis
       \/ /\ lis.pc = "accept"
          /\ sup.server_fd \in sup.open
          /\ lis' = [lis EXCEPT !.pc = "blocked"]
    /\ UNCHANGED <<selVars, bootVars, pidVars, sensorVars, running, lock,
                   saveVars>>

\* ipmi_listener_fn, lines 204-206: accept(server_fd) on a descriptor that
\* is not open (closed, or -1) returns -1 at once, and the loop continues.
ListenerAcceptFail ==
    /\ LisAlive
    /\ lis.pc = "accept"
    /\ sup.server_fd \notin sup.open
    /\ lis' = [lis EXCEPT !.pc = "loop"]
    /\ UNCHANGED <<selVars, bootVars, pidVars, sensorVars, running, lock,
                   saveVars, sup>>

\* ipmi_listener_fn, lines 204-219: a client connects to the listening
\* socket and its connection is served and closed.
ListenerServe ==
    /\ LisAlive
    /\ lis.pc = "accept"
    /\ sup.server_fd \in sup.open
    /\ lis.conns < MaxRequests
    /\ lis' = [lis EXCEPT !.pc = "loop", !.conns = lis.conns + 1]
    /\ UNCHANGED <<selVars, bootVars, pidVars, sensorVars, running, lock,
                   saveVars, sup>>

InitListener ==
    /\ SelInit
    /\ BootZero
    /\ PidMain
    /\ SensorMain
    /\ running = TRUE
    /\ lock = "free"
    /\ SaveZero
    /\ sup = ApiZero
    /\ lis = LisZero

\* The steps the listener thread takes by itself, without a client.
ListenerRuns == LisLoop \/ ListenerAcceptFail

NextListener ==
    \/ ipmi_start_listener
    \/ ipmi_stop_listener
    \/ Signal
    \/ LisLoop
    \/ ListenerAcceptFail
    \/ ListenerServe

SpecListener == InitListener /\ [][NextListener]_vars

\* The scheduler runs a thread that can take a step; clients, signals and
\* the caller's calls may or may not come.
SpecListenerFair == SpecListener /\ WF_vars(ListenerRuns)

----------------------------------------------------------------------------
\* ipmi_stop_listener has closed a listening socket.
SocketClosed ==
    /\ sup.last = "stop"
    /\ sup.closes # <<>>
    /\ sup.server_fd \notin sup.open

\* The thread has returned from ipmi_listener_fn.
ListenerReturned == lis.pc = "exit"

\* The thread is at an accept that fails while running is true.
AcceptFailsRunning ==
    lis.pc = "accept" /\ sup.server_fd \notin sup.open /\ running

\* C31: once running is cleared and ipmi_stop_listener has closed the
\* listening socket, the listener thread eventually returns from its loop;
\* and with the socket closed while running is true the thread does not go
\* on failing accepts for ever.
C31_ListenerTerminates ==
    /\ (~running /\ SocketClosed /\ lis.pc # "off") ~> ListenerReturned
    /\ <>[]~AcceptFailsRunning

\* What the code gives: an accept that fails after running was cleared is
\* the last one, the thread then returns.
FailedAcceptExits ==
    (~running /\ lis.pc = "accept" /\ sup.server_fd \notin sup.open)
        ~> ListenerReturned


----------------------------------------------------------------------------
\* C37: over any sequence of ipmi_start_listener and ipmi_stop_listener
\* calls, close() is called at most once on each socket that socket()
\* created (also after a start that failed at bind or listen, and at a
\* second stop), and after a stop server_fd records no descriptor.
C37_ClosedAtMostOnce ==
    /\ \A i \in 1..Len(sup.closes) : sup.closes[i] <= 1
    /\ sup.last = "stop" => sup.server_fd = 0 - 1

\* What the code gives: after a stop server_fd is -1, and a stop that
\* follows a stop, or a start in which socket() failed, closes nothing.
StopClearsDescriptor ==
    /\ [](sup.last = "stop" => sup.server_fd = 0 - 1)
    /\ [][sup.server_fd = 0 - 1 /\ sup'.last = "stop"
             => sup'.closes = sup.closes /\ sup'.open = sup.open]_vars


----------------------------------------------------------------------------
\* The steps of main from phase 3 on, but for the poll.
SupRuns ==
    \/ StartListener \/ SupAppendSlot \/ SupAppendFill \/ SupAppendBump
    \/ SupLoop \/ SupLock \/ SupPid \/ SupDuty \/ SupUnlock
    \/ SupSave \/ SupSelSaveRead \/ SupSelSave \/ SupStop \/ SupCleanup
    \/ SupFinal

\* SpecConc in which main is scheduled whenever it can take a step, and
\* so is a handler that holds the state lock.  sensor_poll returns for
\* every sample, so SupPoll is enabled exactly when main is at the poll,
\* and weak fairness of SupPoll says that main is again and again
\* somewhere else.
SpecConcFair ==
    /\ SpecConc
    /\ WF_vars(SupRuns)
    /\ []<>(sup.pc # "poll")
    /\ WF_vars(LisSetDutyWrite)

\* What has been done of the shutdown, in the order of main, lines
\* 190-195: the state is destroyed only after FW_IMAGE_DIR was removed,
\* which is removed only after the listening socket was closed.
ShutdownOrdered ==
    /\ lock = "destroyed" => ~fw_dir
    /\ ~fw_dir => sup.server_fd # "open"
    /\ sup.pc = "done" <=> lock = "destroyed"

\* Once the loop test has read running = false, no tick is started: the
\* next step of main is ipmi_stop_listener.
NoNewTick ==
    [][~running /\ sup.pc = "loop" /\ SupStep => sup'.pc = "stop"]_vars

\* C32: after a signal has cleared running, main starts no new tick, does
\* the shutdown in the order stop listener, clean up the firmware
\* directory, destroy the state, and returns 0.
C32_OrderlyShutdown ==
    /\ NoNewTick
    /\ []ShutdownOrdered
    /\ ~running ~> sup.pc = "done"

\* What the code gives: the same, unless the process is ended by SIGPIPE
\* before main returns.
OrderlyShutdownUnlessKilled ==
    /\ NoNewTick
    /\ []ShutdownOrdered
    /\ ~running ~> sup.pc \in {"done", "killed"}


----------------------------------------------------------------------------
\* The verify loop reaches image i: every image before it passed or could
\* not be read (secure_boot.c, lines 169 and 190-194).
Inspected(i) ==
    \A j \in 0..(i - 1) : fw_images'[j].passed \/ blob[j] = Absent

\* passed is set only together with verified, by the comparison of line 173.
PassedMeansEqual ==
    \A i \in LiveImages :
        fw_images[i].passed =>
            /\ fw_images[i].verified
            /\ fw_images[i].actual_hash = fw_images[i].expected_hash

\* C33: an image with verified = true has a populated actual_hash, the one
\* computed by the last verify that inspected it, also when it is marked
\* verified because its file could not be read; passed = true implies
\* verified = true and actual_hash = expected_hash.
C33_VerifiedHasHash ==
    /\ [](\A i \in LiveImages :
            fw_images[i].verified => fw_images[i].actual_hash # <<>>)
    /\ []PassedMeansEqual
    /\ [][VerifyCalled =>
            \A i \in LiveImages :
                Inspected(i) =>
                    /\ fw_images'[i].verified
                    /\ fw_images'[i].actual_hash = compute_file_hash(blob[i]).hash]_vars

\* What the code gives: the same for every image whose file could be read;
\* an image whose file could not be read is marked verified and failed and
\* keeps the actual_hash it had.
ReadableHasHash ==
    /\ []PassedMeansEqual
    /\ [][VerifyCalled =>
            \A i \in LiveImages :
                Inspected(i) =>
                    /\ fw_images'[i].verified
                    /\ fw_images'[i].actual_hash =
                          IF blob[i] = Absent THEN fw_images[i].actual_hash
                          ELSE compute_file_hash(blob[i]).hash
                    /\ blob[i] = Absent => ~fw_images'[i].passed]_vars


----------------------------------------------------------------------------
\* The blobs secure_boot_init generated.
InitialBlob == InitImages(ZeroImages, NoBlobs).blob

\* This step is the call op(i).
BootCalled(op, i) == boot_hist' = Append(boot_hist, <<op, i>>)

\* C34: restore(i) leaves blob i with its initial content, so after
\* tamper(i), restore(i), verify every image has passed and
\* secure_boot_passed is true; tamper and restore with an index outside
\* 0..fw_image_count-1 return -1 and change neither the blobs, the image
\* records nor the SEL.
C34_RestoreUndoesTamper ==
    /\ [][\A i \in LiveImages :
             BootCalled("restore", i) =>
                 restore_ret(i) = 0 /\ blob'[i] = InitialBlob[i]]_vars
    /\ [](\A i \in LiveImages :
             SinceInit = << <<"tamper", i>>, <<"restore", i>>, <<"verify">> >> =>
                 /\ blob = InitialBlob
                 /\ \A j \in LiveImages :
                       fw_images[j].verified /\ fw_images[j].passed
                 /\ verify_ret
                 /\ secure_boot_passed)
    /\ [][\A i \in BootIndexInputs \ LiveImages :
             /\ BootCalled("tamper", i) =>
                   /\ inject_tamper_ret(i) = 0 - 1
                   /\ UNCHANGED <<blob, fw_images, selVars>>
             /\ BootCalled("restore", i) =>
                   /\ restore_ret(i) = 0 - 1
                   /\ UNCHANGED <<blob, fw_images, selVars>>]_vars

\* C34 witness: the last image was tampered and restored, and the verify
\* that followed passed the whole chain.
C34_Witness ==
    /\ SinceInit = << <<"tamper", 3>>, <<"restore", 3>>, <<"verify">> >>
    /\ fw_images[3].passed
    /\ secure_boot_passed



(***************************************************************************)
(* SpecLock: the two threads while the daemon runs, with every             *)
(* pthread_mutex_lock and pthread_mutex_unlock on the state lock a step    *)
(***************************************************************************)
\* Requests of a client: Get Sensor Reading, Set Fan Duty, and Get SEL
\* Entry for an id that is in the log and for one that is not.
LockInputs ==
    { [netfn |-> IPMI_NETFN_SENSOR, cmd |-> IPMI_CMD_GET_SENSOR_READING, data |-> <<0>>],
      [netfn |-> IPMI_NETFN_SENSOR, cmd |-> IPMI_CMD_SET_FAN_DUTY, data |-> <<50>>],
      [netfn |-> IPMI_NETFN_STORAGE, cmd |-> IPMI_CMD_GET_SEL_ENTRY, data |-> <<0, 1>>],
      [netfn |-> IPMI_NETFN_STORAGE, cmd |-> IPMI_CMD_GET_SEL_ENTRY, data |-> <<0, 200>>] }

\* bmc_state_save, line 105: pthread_mutex_lock
SupSaveLock ==
    /\ sup.pc = "save"
    /\ lock = "free"
    /\ lock' = "sup"
    /\ sup' = [sup EXCEPT !.pc = "save_locked"]
    /\ UNCHANGED <<selVars, bootVars, pidVars, sensorVars, running, saveVars, lis>>

\* bmc_state_save, lines 107-157: the document is written and renamed and
\* the lock released at line 156, or fopen fails and the lock is released
\* at line 143 before the return of -1.
SupSaveLocked ==
    /\ sup.pc = "save_locked"
    /\ \/ /\ state_file' = [exists |-> TRUE, chunks |-> state_to_json]
          /\ save' = [save EXCEPT !.ret = 0]
       \/ /\ UNCHANGED state_file
          /\ save' = [save EXCEPT !.ret = 0 - 1]
    /\ lock' = "free"
    /\ sup' = [sup EXCEPT !.pc = "sel_save"]
    /\ UNCHANGED <<selVars, bootVars, pidVars, sensorVars, running, tmp_file,
                   observed, lis>>

\* handle_get_sensor_reading, line 73: pthread_mutex_lock
LisGetSensorReadingLock ==
    /\ LisAlive
    /\ lis.pc = "gsr"
    /\ lock = "free"
    /\ lock' = "lis"
    /\ lis' = [lis EXCEPT !.pc = "gsr_locked"]
    /\ UNCHANGED <<selVars, bootVars, pidVars, sensorVars, running, saveVars, sup>>

\* handle_get_sensor_reading, lines 74-86: pack the reading and unlock.
LisGetSensorReadingLocked ==
    /\ LisAlive
    /\ lis.pc = "gsr_locked"
    /\ \E raw \in RawOutcomes(sensors[lis.req.data[1]].value) :
          lis' = [lis EXCEPT !.pc = "write",
                             !.resp = pack_reading(sensors[lis.req.data[1]], raw)]
    /\ lock' = "free"
    /\ UNCHANGED <<selVars, bootVars, pidVars, sensorVars, running, saveVars, sup>>

\* handle_get_sel_entry, line 126: pthread_mutex_lock
LisGetSelEntryLock ==
    /\ LisAlive
    /\ lis.pc = "gse"
    /\ lock = "free"
    /\ lock' = "lis"
    /\ lis' = [lis EXCEPT !.pc = "gse_locked"]
    /\ UNCHANGED <<selVars, bootVars, pidVars, sensorVars, running, saveVars, sup>>

\* Mutant: the return for an entry that is not found leaves the lock held.
LisGetSelEntryLocked_MissKeepsLock ==
    /\ LisAlive
    /\ lis.pc = "gse_locked"
    /\ lis' = [lis EXCEPT !.pc = "write",
                          !.resp = sel_entry_resp(Log,
                                      lis.req.data[1] * 256 + lis.req.data[2])]
    /\ lock' = IF lis'.resp.completion_code = IPMI_CC_OK THEN "free" ELSE lock
    /\ UNCHANGED <<selVars, bootVars, pidVars, sensorVars, running, saveVars, sup>>

\* handle_get_sel_entry, lines 127-147: the entry is not found and the lock
\* is released at line 131 before the return, or the entry is packed and
\* the lock released at line 147.
LisGetSelEntryLocked ==
    /\ LisAlive
    /\ lis.pc = "gse_locked"
    /\ lis' = [lis EXCEPT !.pc = "write",
                          !.resp = sel_entry_resp(Log,
                                      lis.req.data[1] * 256 + lis.req.data[2])]
    /\ lock' = "free"
    /\ UNCHANGED <<selVars, bootVars, pidVars, sensorVars, running, saveVars, sup>>

NextLock ==
    \/ StartListener
    \/ SupAppendSlot
    \/ SupAppendFill
    \/ SupAppendBump
    \/ SupLoop
    \/ SupLock
    \/ SupPoll
    \/ SupPid
    \/ SupDuty
    \/ SupUnlock
    \/ SupSaveLock
    \/ SupSaveLocked
    \/ SupSelSaveRead
    \/ SupSelSave
    \/ LisLoop
    \/ LisAcceptFrom(LockInputs)
    \/ LisWrite
    \/ LisGetSensorReadingLock
    \/ LisGetSensorReadingLocked
    \/ LisGetSelEntryLock
    \/ LisGetSelEntryLocked
    \/ LisSetDutyLock
    \/ LisSetDutyWrite
    \/ LisAppendSlot
    \/ LisAppendFill
    \/ LisAppendBump

SpecLock == InitConc /\ [][NextLock]_vars

----------------------------------------------------------------------------
\* Where a thread calls pthread_mutex_lock, and where it is between a lock
\* and the unlock that follows.
SupWaits == {"lock", "save"}

SupHolds == {"poll", "pid", "duty", "unlock", "save_locked"}

LisWaits == {"gsr", "gse", "sfd_lock"}

LisHolds == {"gsr_locked", "gse_locked", "sfd_write"}

\* The process has not been ended.
Living == sup.pc # "killed"

\* A thread holds the lock exactly while it is between a lock and its
\* unlock: it never asks for the lock it holds, and it has released the
\* lock when it leaves the section, by whatever path.
LockMatchesSections ==
    Living =>
        /\ lock = "sup" <=> sup.pc \in SupHolds
        /\ lock = "lis" <=> lis.pc \in LisHolds
        /\ lock \in {"free", "sup", "lis"}

\* sel_add_entry, sel_save and sensor_poll do not touch the lock.
UnlockedCallsKeepLock ==
    [][/\ (sup' # sup /\ Living /\ sup.pc \in {"add_slot", "add_fill", "add_bump",
                                   "poll", "sel_save", "sel_write"})
             => lock' = lock
       /\ (lis' # lis /\ lis.pc \in {"add_slot", "add_fill", "add_bump"})
             => lock' = lock]_vars

\* A thread that waits for the lock waits for the other thread, which is
\* inside a locked section and not waiting.
NoDeadlock ==
    Living =>
        /\ (sup.pc \in SupWaits /\ lock # "free") =>
               lock = "lis" /\ lis.pc \in LisHolds
        /\ (lis.pc \in LisWaits /\ lock # "free") =>
               lock = "sup" /\ sup.pc \in SupHolds
        /\ ~(sup.pc \in SupWaits /\ lis.pc \in LisWaits /\ lock # "free")

\* C35: no thread asks for the state lock while holding it, every
\* acquisition is followed by a release on every path (bmc_state_save's
\* fopen failure and Get SEL Entry's not-found return included), and the
\* two threads never wait for each other.
C35_NoNestedLocking ==
    /\ []LockMatchesSections
    /\ UnlockedCallsKeepLock
    /\ []NoDeadlock

\* C35 witness: bmc_state_save has returned -1, Get SEL Entry has answered
\* 0xC9 for an id that is not in the log, and the lock is free.
C35_Witness ==
    /\ save.ret = 0 - 1
    /\ lis.pc = "write"
    /\ lis.req.cmd = IPMI_CMD_GET_SEL_ENTRY
    /\ lis.resp.completion_code = IPMI_CC_INVALID_PARAM
    /\ lock = "free"


(***************************************************************************)
(* SpecShutdown: SpecConc with the end of main, lines 194-198, taken call  *)
(* by call, and the handlers that run after the mutex was destroyed        *)
(***************************************************************************)
\* main, line 194: the last sel_save, called without the lock.
SupFinalSave ==
    /\ sup.pc = "final"
    /\ SetLog(sel_save(Log))
    /\ sup' = [sup EXCEPT !.pc = "destroy"]
    /\ UNCHANGED <<bootVars, pidVars, sensorVars, running, lock, saveVars, lis>>

\* main, line 195: bmc_state_destroy sets running = false, destroys the
\* mutex and removes both files.
SupDestroy ==
    /\ sup.pc = "destroy"
    /\ SetLog([Log EXCEPT !.sel_file = NoFile])
    /\ running' = FALSE
    /\ lock' = "destroyed"
    /\ state_file' = NoDoc
    /\ sup' = [sup EXCEPT !.pc = "return"]
    /\ UNCHANGED <<bootVars, pidVars, sensorVars, tmp_file, save, observed, lis>>

\* main, lines 197-198: return 0 ends the process and the listener thread
\* with it.
SupReturn ==
    /\ sup.pc = "return"
    /\ sup' = [sup EXCEPT !.pc = "done"]
    /\ UNCHANGED <<selVars, bootVars, pidVars, sensorVars, running, lock,
                   saveVars, lis>>

\* A handler that reaches its pthread_mutex_lock after the mutex was
\* destroyed (ipmi.c, lines 73, 104 and 126).  Locking a destroyed mutex
\* is undefined: the call may fail, and the handler, which does not look
\* at the result, goes on without the lock; or the thread may never
\* return from the call.
LisAfterDestroy ==
    /\ LisAlive
    /\ lock = "destroyed"
    /\ \/ /\ lis.pc = "gsr"
          /\ \E raw \in RawOutcomes(sensors[lis.req.data[1]].value) :
                lis' = [lis EXCEPT !.pc = "write",
                                   !.resp = pack_reading(sensors[lis.req.data[1]], raw)]
          /\ UNCHANGED fan_duty_percent
       \/ /\ lis.pc = "gse"
          /\ lis' = [lis EXCEPT !.pc = "write",
                                !.resp = sel_entry_resp(Log,
                                            lis.req.data[1] * 256 + lis.req.data[2])]
          /\ UNCHANGED fan_duty_percent
       \/ /\ lis.pc = "sfd_lock"
          /\ fan_duty_percent' = lis.req.data[1] * FP
          /\ lis' = [lis EXCEPT !.pc = "add_slot"]
       \/ /\ lis.pc \in {"gsr", "gse", "sfd_lock"}
          /\ lis' = [lis EXCEPT !.pc = "hung"]
          /\ UNCHANGED fan_duty_percent
    /\ UNCHANGED <<selVars, bootVars, pidVars, sensors, sensor_count, running,
                   lock, saveVars, sup>>

NextShutdown ==
    \/ StartListener
    \/ SupAppendSlot
    \/ SupAppendFill
    \/ SupAppendBump
    \/ SupLoop
    \/ SupLock
    \/ SupPoll
    \/ SupPid
    \/ SupDuty
    \/ SupUnlock
    \/ SupSave
    \/ SupSelSaveRead
    \/ SupSelSave
    \/ SupStop
    \/ SupCleanup
    \/ SupFinalSave
    \/ SupDestroy
    \/ SupReturn
    \/ Signal
    \/ LisLoop
    \/ LisAccept
    \/ LisReadNothing
    \/ LisWrite
    \/ LisAcceptFail
    \/ LisGetSensorReading
    \/ LisGetSelEntry
    \/ LisSetDutyLock
    \/ LisSetDutyWrite
    \/ LisAppendSlot
    \/ LisAppendFill
    \/ LisAppendBump
    \/ LisAfterDestroy

SpecShutdown == InitConc /\ [][NextShutdown]_vars

----------------------------------------------------------------------------
\* The listener thread does not exist or has returned.
ListenerGone == lis.pc \in {"off", "exit"}

\* main is between the call of sel_add_entry for "BMC daemon shutting
\* down" and its return from main.
LastSteps ==
    \/ sup.site = "down" /\ sup.pc \in {"add_slot", "add_fill", "add_bump"}
    \/ sup.pc \in {"final", "destroy", "return"}

\* C36: the listener thread has ended before main appends "BMC daemon
\* shutting down", so no handler runs beside that append and the last
\* sel_save, and none takes the lock or touches the state after
\* bmc_state_destroy has destroyed the mutex.
C36_ListenerEndedFirst ==
    /\ [](LastSteps => ListenerGone)
    /\ [][lock = "destroyed" => lis' = lis]_vars

\* The second half of C36 alone: no step of the listener thread after the
\* mutex was destroyed.
NoHandlerAfterDestroy == [][lock = "destroyed" => lis' = lis]_vars


----------------------------------------------------------------------------
\* The commands that only read.
ReadOnlyPairs ==
    { <<IPMI_NETFN_APP, IPMI_CMD_GET_DEVICE_ID>>,
      <<IPMI_NETFN_SENSOR, IPMI_CMD_GET_SENSOR_READING>>,
      <<IPMI_NETFN_STORAGE, IPMI_CMD_GET_SEL_ENTRY>> }

\* C38: Get Device ID, Get Sensor Reading and Get SEL Entry, answered 0x00
\* or 0xC9, leave every field of the state as it was; Get Device ID
\* answers 0x00 with the data 0x20, 0x01, 0x02, 0x05, 0x02 and data_len 5
\* in every state.
C38_ReadsChangeNothing ==
    [][(Handled /\ <<lis'.req.netfn, lis'.req.cmd>> \in ReadOnlyPairs) =>
          /\ lis'.resp.completion_code \in {IPMI_CC_OK, IPMI_CC_INVALID_PARAM}
          /\ UNCHANGED <<selVars, bootVars, pidVars, sensorVars, running,
                         lock, saveVars, sup>>
          /\ IsRequest(lis'.req, IPMI_NETFN_APP, IPMI_CMD_GET_DEVICE_ID) =>
                /\ lis'.resp.completion_code = 0
                /\ lis'.resp.data = <<32, 1, 2, 5, 2>>
                /\ lis'.resp.data_len = 5]_vars

\* C38 witness: after a poll and an append by the caller, Get SEL Entry
\* for an id that is not in the log was answered 0xC9.
C38_Witness ==
    /\ sup.ticks >= 1
    /\ sup.texts >= 1
    /\ lis.reqs >= 1
    /\ IsRequest(lis.req, IPMI_NETFN_STORAGE, IPMI_CMD_GET_SEL_ENTRY)
    /\ lis.req.data = <<1, 2>>
    /\ lis.resp.completion_code = IPMI_CC_INVALID_PARAM

----------------------------------------------------------------------------
\* Bytes 0..1 of a response read as a big-endian signed 16-bit integer.
Signed16(resp) ==
    LET u == resp.data[1] * 256 + resp.data[2]
    IN  IF u >= 32768 THEN u - 65536 ELSE u

\* value * 256 is within the range of int16_t.
Fits16(value) == 0 - 32768 * FP <= value * 256 /\ value * 256 < 32768 * FP

\* The response to Get Sensor Reading for sensor s, read as signed 8.8,
\* is within 1/256 of the sensor's value.
Recovers(resp, s) == Abs(Signed16(resp) * FP - s.value * 256) < FP

\* C39: for every sensor and every value the sensor engine gives it,
\* value * 256 fits a signed 16-bit integer, and bytes 0..1 of a Get Sensor
\* Reading response read as signed 8.8 give the value to within 1/256.
C39_ReadingFits16 ==
    /\ [](\A i \in 0..(sensor_count - 1) : Fits16(sensors[i].value))
    /\ [][(Handled /\ IsRequest(lis'.req, IPMI_NETFN_SENSOR,
                                IPMI_CMD_GET_SENSOR_READING)
                  /\ lis'.resp.completion_code = IPMI_CC_OK) =>
             Recovers(lis'.resp, sensors[lis'.req.data[1]])]_vars

\* What the code gives: the temperatures and the voltages fit and are
\* recovered; a fan speed is recovered only while it is below 128 rpm.
ReadingFits16BelowFans ==
    /\ [](\A i \in 0..(sensor_count - 1) :
             sensors[i].type \in {SENSOR_TYPE_TEMPERATURE, SENSOR_TYPE_VOLTAGE}
                 => Fits16(sensors[i].value))
    /\ [][(Handled /\ IsRequest(lis'.req, IPMI_NETFN_SENSOR,
                                IPMI_CMD_GET_SENSOR_READING)
                  /\ lis'.resp.completion_code = IPMI_CC_OK
                  /\ Fits16(sensors[lis'.req.data[1]].value)) =>
             Recovers(lis'.resp, sensors[lis'.req.data[1]])]_vars

====
